---- MODULE Spec2Model ----
(***************************************************************************)
(* Model of the roadmap plugin's storage and consistency engine:           *)
(*   - identifiers, titles and statuses      (src/src/validators.ts)       *)
(*   - the createroadmap merge               (src/src/tools/createroadmap) *)
(*   - the updateroadmap transform           (src/src/tools/updateroadmap) *)
(*   - FileStorage: lock sentinel, atomic writer, update/write/archive     *)
(*                                           (src/src/storage.ts)          *)
(*   - the document codec: task list text  (src/src/roadmap/document.ts)   *)
(*                                                                         *)
(* Identifier strings are sequences of one-character strings, so that the  *)
(* regular expressions, parseInt, parseFloat and split(".") of the source  *)
(* are computed rather than assumed.  Titles and descriptions are strings  *)
(* of a small alphabet; String.trim() is tabulated on that alphabet.       *)
(***************************************************************************)
EXTENDS Integers, Sequences, FiniteSets, TLC

\* ------------------------------------------------------------------------
\* Strings
\* ------------------------------------------------------------------------

Digits == {"0", "1", "2", "3", "4", "5", "6", "7", "8", "9"}

DigitValue(c) ==
  CASE c = "0" -> 0 [] c = "1" -> 1 [] c = "2" -> 2 [] c = "3" -> 3
    [] c = "4" -> 4 [] c = "5" -> 5 [] c = "6" -> 6 [] c = "7" -> 7
    [] c = "8" -> 8 [] c = "9" -> 9

AllDigits(s) == \A i \in 1..Len(s) : s[i] \in Digits

\* parseInt(s) of a string of digits
RECURSIVE ParseInt(_)
ParseInt(s) ==
  IF Len(s) = 0 THEN 0
  ELSE 10 * ParseInt(SubSeq(s, 1, Len(s) - 1)) + DigitValue(s[Len(s)])

\* index of the first "." of s, 0 when there is none
DotIndex(s) ==
  IF \E i \in 1..Len(s) : s[i] = "."
  THEN CHOOSE i \in 1..Len(s) : s[i] = "." /\ \A j \in 1..(i - 1) : s[j] # "."
  ELSE 0

\* s.split(".")[0]
SplitPrefix(s) == IF DotIndex(s) = 0 THEN s ELSE SubSeq(s, 1, DotIndex(s) - 1)

\* /^\d+$/.test(s)
MatchesFeatureNumber(s) == Len(s) >= 1 /\ AllDigits(s)

\* /^\d+\.\d{2}$/.test(s)
MatchesActionNumber(s) ==
  /\ Len(s) >= 4
  /\ s[Len(s) - 2] = "."
  /\ AllDigits(SubSeq(s, 1, Len(s) - 3))
  /\ AllDigits(SubSeq(s, Len(s) - 1, Len(s)))

\* parseFloat(s) of a well-formed action number, in hundredths
ParseFloat(s) ==
  100 * ParseInt(SubSeq(s, 1, Len(s) - 3)) + ParseInt(SubSeq(s, Len(s) - 1, Len(s)))

\* text.trim() on the alphabet of titles and descriptions
Trim(text) == IF text \in {"", " "} THEN "" ELSE text

NoSubject == << >>

Err(code, subject) == [code |-> code, subject |-> subject]

\* ------------------------------------------------------------------------
\* RoadmapValidator
\* ------------------------------------------------------------------------

validateFeatureNumber(number) ==
  IF number = << >> THEN << Err("INVALID_FEATURE_NUMBER", NoSubject) >>
  ELSE IF ~MatchesFeatureNumber(number)
       THEN << Err("INVALID_FEATURE_NUMBER_FORMAT", NoSubject) >>
       ELSE << >>

validateActionNumber(number) ==
  IF number = << >> THEN << Err("INVALID_ACTION_NUMBER", NoSubject) >>
  ELSE IF ~MatchesActionNumber(number)
       THEN << Err("INVALID_ACTION_NUMBER_FORMAT", NoSubject) >>
       ELSE << >>

\* ActionErrors without the check of the prefix
ActionErrors_NoPrefix(number, seen, globalSeen, featureNumber) ==
  (IF number \in seen
   THEN << Err("DUPLICATE_ACTION_NUMBER", number) >> ELSE << >>)
  \o (IF number \in globalSeen
      THEN << Err("DUPLICATE_ACTION_NUMBER_GLOBAL", number) >> ELSE << >>)

\* One iteration of the loop of validateActionSequence: the errors pushed for
\* one action, given the numbers seen so far in the feature and globally.
ActionErrors(number, seen, globalSeen, featureNumber) ==
  (IF SplitPrefix(number) # featureNumber
   THEN << Err("ACTION_FEATURE_MISMATCH", number) >> ELSE << >>)
  \o (IF number \in seen
      THEN << Err("DUPLICATE_ACTION_NUMBER", number) >> ELSE << >>)
  \o (IF number \in globalSeen
      THEN << Err("DUPLICATE_ACTION_NUMBER_GLOBAL", number) >> ELSE << >>)

\* validateActionSequence(actions, globalSeenNumbers, featureNumber) returns
\* the errors and leaves globalSeenNumbers updated: [errors, globalSeen].
RECURSIVE ActionSequenceLoop(_, _, _, _, _)
ActionSequenceLoop(actions, seen, globalSeen, featureNumber, errors) ==
  IF actions = << >> THEN [errors |-> errors, globalSeen |-> globalSeen]
  ELSE LET number == Head(actions).number
           numberError == validateActionNumber(number)
       IN IF numberError # << >>
          THEN ActionSequenceLoop(Tail(actions), seen, globalSeen, featureNumber,
                                  errors \o numberError)
          ELSE ActionSequenceLoop(Tail(actions), seen \cup {number},
                                  globalSeen \cup {number}, featureNumber,
                                  errors \o ActionErrors(number, seen, globalSeen,
                                                         featureNumber))

validateActionSequence(actions, globalSeenNumbers, featureNumber) ==
  ActionSequenceLoop(actions, {}, globalSeenNumbers, featureNumber, << >>)

RECURSIVE FeatureSequenceLoop(_, _, _, _)
FeatureSequenceLoop(features, seenNumbers, seenActionNumbers, errors) ==
  IF features = << >> THEN errors
  ELSE LET feature == Head(features)
           numberError == validateFeatureNumber(feature.number)
           dup == IF feature.number \in seenNumbers
                  THEN << Err("DUPLICATE_FEATURE_NUMBER", feature.number) >>
                  ELSE << >>
           act == validateActionSequence(feature.actions, seenActionNumbers,
                                         feature.number)
       IN IF numberError # << >>
          THEN FeatureSequenceLoop(Tail(features), seenNumbers, seenActionNumbers,
                                   errors \o numberError)
          ELSE FeatureSequenceLoop(Tail(features), seenNumbers \cup {feature.number},
                                   act.globalSeen, errors \o dup \o act.errors)

validateFeatureSequence(features) == FeatureSequenceLoop(features, {}, {}, << >>)

validateTitle(title, fieldType) ==
  IF title = "" THEN << Err("INVALID_TITLE", << fieldType >>) >>
  ELSE IF Trim(title) = "" THEN << Err("EMPTY_TITLE", << fieldType >>) >>
       ELSE << >>

validateDescription(description, fieldType) ==
  IF description = "" THEN << Err("INVALID_DESCRIPTION", << fieldType >>) >>
  ELSE IF Trim(description) = "" THEN << Err("EMPTY_DESCRIPTION", << fieldType >>) >>
       ELSE << >>

validStatuses == {"pending", "in_progress", "completed", "cancelled"}

\* validateStatusProgression without the check of the terminal state
validateStatusProgression_NoTerminal(currentStatus, newStatus) ==
  IF newStatus \notin validStatuses
  THEN << Err("INVALID_STATUS", NoSubject) >>
  ELSE << >>

validateStatusProgression(currentStatus, newStatus) ==
  IF newStatus \notin validStatuses
  THEN << Err("INVALID_STATUS", NoSubject) >>
  ELSE IF currentStatus = "cancelled"
       THEN << Err("INVALID_STATUS_TRANSITION", NoSubject) >>
       ELSE << >>

\* ------------------------------------------------------------------------
\* Roadmap values
\* ------------------------------------------------------------------------

\* A Roadmap value { features: [...] }, and the null that read() returns when
\* there is no document
Roadmap(features) == [present |-> TRUE, features |-> features]

NoDoc == [present |-> FALSE, features |-> << >>]

\* an optional argument that was not provided
Undefined == "<undefined>"

Action(number, description, status) ==
  [number |-> number, description |-> description, status |-> status]

Feature(number, title, description, actions) ==
  [number |-> number, title |-> title, description |-> description,
   actions |-> actions]

\* the outcome of a transform: the UpdateResult it returns, or the error it throws
Returned(roadmap, archive, changed) ==
  [ok |-> TRUE, error |-> "", errors |-> << >>, roadmap |-> roadmap,
   archive |-> archive, changed |-> changed]

Thrown(error, errors) ==
  [ok |-> FALSE, error |-> error, errors |-> errors, roadmap |-> NoDoc,
   archive |-> FALSE, changed |-> FALSE]

\* array.findIndex(x => x.number === number) + 1; 0 when there is none
FindNumber(items, number) ==
  IF \E i \in 1..Len(items) : items[i].number = number
  THEN CHOOSE i \in 1..Len(items) :
         items[i].number = number /\ \A j \in 1..(i - 1) : items[j].number # number
  ELSE 0

\* Array.prototype.sort is stable: x goes after every element whose key is <= its own
RECURSIVE InsertAction(_, _)
InsertAction(sorted, x) ==
  IF sorted = << >> THEN << x >>
  ELSE LET last == sorted[Len(sorted)]
       IN IF ParseFloat(last.number) <= ParseFloat(x.number)
          THEN Append(sorted, x)
          ELSE Append(InsertAction(SubSeq(sorted, 1, Len(sorted) - 1), x), last)

RECURSIVE SortActionsFrom(_, _)
SortActionsFrom(sorted, rest) ==
  IF rest = << >> THEN sorted
  ELSE SortActionsFrom(InsertAction(sorted, Head(rest)), Tail(rest))

\* actions.sort((a, b) => parseFloat(a.number) - parseFloat(b.number))
SortActions(actions) == SortActionsFrom(<< >>, actions)

RECURSIVE InsertFeature(_, _)
InsertFeature(sorted, x) ==
  IF sorted = << >> THEN << x >>
  ELSE LET last == sorted[Len(sorted)]
       IN IF ParseInt(last.number) <= ParseInt(x.number)
          THEN Append(sorted, x)
          ELSE Append(InsertFeature(SubSeq(sorted, 1, Len(sorted) - 1), x), last)

RECURSIVE SortFeaturesFrom(_, _)
SortFeaturesFrom(sorted, rest) ==
  IF rest = << >> THEN sorted
  ELSE SortFeaturesFrom(InsertFeature(sorted, Head(rest)), Tail(rest))

\* features.sort((a, b) => parseInt(a.number) - parseInt(b.number))
SortFeatures(features) == SortFeaturesFrom(<< >>, features)

\* ------------------------------------------------------------------------
\* createroadmap: the transform passed to storage.update
\* ------------------------------------------------------------------------

\* First pass, per feature: title, description and action descriptions
StructuralErrors(feature) ==
  LET RECURSIVE ActionTitles(_)
      ActionTitles(actions) ==
        IF actions = << >> THEN << >>
        ELSE validateTitle(Head(actions).description, "action")
             \o ActionTitles(Tail(actions))
  IN validateTitle(feature.title, "feature")
     \o validateDescription(feature.description, "feature")
     \o ActionTitles(feature.actions)

RECURSIVE FirstPass(_)
FirstPass(features) ==
  IF features = << >> THEN << >>
  ELSE StructuralErrors(Head(features)) \o FirstPass(Tail(features))

\* ProcessActions that overwrites an action that already exists
RECURSIVE ProcessActions_Overwrite(_, _)
ProcessActions_Overwrite(existingActions, inputActions) ==
  IF inputActions = << >> THEN existingActions
  ELSE LET inputAction == Head(inputActions)
           at == FindNumber(existingActions, inputAction.number)
       IN IF at # 0
          THEN ProcessActions_Overwrite(
                 [existingActions EXCEPT ![at] =
                    Action(inputAction.number, inputAction.description,
                           inputAction.status)],
                 Tail(inputActions))
          ELSE ProcessActions_Overwrite(
                 SortActions(Append(existingActions,
                                    Action(inputAction.number, inputAction.description,
                                           inputAction.status))),
                 Tail(inputActions))

\* ProcessActions without the skip of an action that already exists
RECURSIVE ProcessActions_NoSkip(_, _)
ProcessActions_NoSkip(existingActions, inputActions) ==
  IF inputActions = << >> THEN existingActions
  ELSE ProcessActions_NoSkip(
         SortActions(Append(existingActions,
                            Action(Head(inputActions).number,
                                   Head(inputActions).description,
                                   Head(inputActions).status))),
         Tail(inputActions))

\* Process Actions: the input actions of a feature that already exists
RECURSIVE ProcessActions(_, _)
ProcessActions(existingActions, inputActions) ==
  IF inputActions = << >> THEN existingActions
  ELSE LET inputAction == Head(inputActions)
       IN IF FindNumber(existingActions, inputAction.number) # 0
          THEN ProcessActions(existingActions, Tail(inputActions))
          ELSE ProcessActions(
                 SortActions(Append(existingActions,
                                    Action(inputAction.number, inputAction.description,
                                           inputAction.status))),
                 Tail(inputActions))

\* NewFeature that starts the actions of the feature
NewFeature_Started(inputFeature) ==
  Feature(inputFeature.number, inputFeature.title, inputFeature.description,
          [i \in 1..Len(inputFeature.actions) |->
             Action(inputFeature.actions[i].number,
                    inputFeature.actions[i].description,
                    "in_progress")])

\* New Feature: Append
NewFeature(inputFeature) ==
  Feature(inputFeature.number, inputFeature.title, inputFeature.description,
          [i \in 1..Len(inputFeature.actions) |->
             Action(inputFeature.actions[i].number,
                    inputFeature.actions[i].description,
                    inputFeature.actions[i].status)])

\* ImmutableViolation that compares the title only
ImmutableViolation_TitleOnly(existingFeature, inputFeature) ==
  existingFeature.title # inputFeature.title

\* Feature exists: Validate Immutability
ImmutableViolation(existingFeature, inputFeature) ==
  \/ existingFeature.title # inputFeature.title
  \/ existingFeature.description # inputFeature.description

\* Merge Logic: the loop over args.features; stops at the first violation
RECURSIVE MergeLoop(_, _)
MergeLoop(features, inputFeatures) ==
  IF inputFeatures = << >> THEN [ok |-> TRUE, features |-> features]
  ELSE LET inputFeature == Head(inputFeatures)
           at == FindNumber(features, inputFeature.number)
       IN IF at # 0
          THEN IF ImmutableViolation(features[at], inputFeature)
               THEN [ok |-> FALSE, features |-> features]
               ELSE MergeLoop(
                      [features EXCEPT ![at].actions =
                         ProcessActions(features[at].actions, inputFeature.actions)],
                      Tail(inputFeatures))
          ELSE MergeLoop(Append(features, NewFeature(inputFeature)),
                         Tail(inputFeatures))

\* CreateRoadmapTransform without the two checks of a feature without actions
CreateRoadmapTransform_NoActionCheck(current, inputFeatures) ==
  LET validationErrors == FirstPass(inputFeatures)
                          \o validateFeatureSequence(inputFeatures)
      merged == MergeLoop(current.features, inputFeatures)
      sorted == SortFeatures(merged.features)
      finalErrors == validateFeatureSequence(sorted)
  IN IF validationErrors # << >>
     THEN Thrown("VALIDATION_ERRORS", validationErrors)
     ELSE IF ~merged.ok
     THEN Thrown("IMMUTABLE_FEATURE", << >>)
     ELSE IF finalErrors # << >>
     THEN Thrown("RESULT_INVALID", finalErrors)
     ELSE Returned(Roadmap(sorted), FALSE, TRUE)

CreateRoadmapTransform(current, inputFeatures) ==
  LET validationErrors == FirstPass(inputFeatures)
                          \o validateFeatureSequence(inputFeatures)
      merged == MergeLoop(current.features, inputFeatures)
      sorted == SortFeatures(merged.features)
      finalErrors == validateFeatureSequence(sorted)
  IN IF \E i \in 1..Len(inputFeatures) : inputFeatures[i].actions = << >>
     THEN Thrown("FEATURE_WITHOUT_ACTIONS", << >>)
     ELSE IF validationErrors # << >>
     THEN Thrown("VALIDATION_ERRORS", validationErrors)
     ELSE IF ~merged.ok
     THEN Thrown("IMMUTABLE_FEATURE", << >>)
     ELSE IF \E i \in 1..Len(sorted) : sorted[i].actions = << >>
     THEN Thrown("MERGE_ERROR", << >>)
     ELSE IF finalErrors # << >>
     THEN Thrown("RESULT_INVALID", finalErrors)
     ELSE Returned(Roadmap(sorted), FALSE, TRUE)

\* ------------------------------------------------------------------------
\* updateroadmap: the transform passed to storage.update
\* ------------------------------------------------------------------------

\* index of the first feature that holds the action; 0 when there is none
TargetFeature(features, actionNumber) ==
  IF \E i \in 1..Len(features) : FindNumber(features[i].actions, actionNumber) # 0
  THEN CHOOSE i \in 1..Len(features) :
         /\ FindNumber(features[i].actions, actionNumber) # 0
         /\ \A j \in 1..(i - 1) : FindNumber(features[j].actions, actionNumber) = 0
  ELSE 0

\* the test for the archive passing over the cancelled actions
AllCompleted_SkipsCancelled(features) ==
  \A f \in 1..Len(features) : \A a \in 1..Len(features[f].actions) :
    features[f].actions[a].status \in {"completed", "cancelled"}

AllCompleted(features) ==
  \A i \in 1..Len(features) : \A j \in 1..Len(features[i].actions) :
    features[i].actions[j].status = "completed"

\* the update persisting the description that was assigned before the status
\* was refused
UpdateRoadmapTransform_KeepsDescription(document, args) ==
  IF document = NoDoc THEN Thrown("ROADMAP_NOT_FOUND", << >>)
  ELSE
  LET features == document.features
      f == TargetFeature(features, args.actionNumber)
  IN IF f = 0 THEN Thrown("ACTION_NOT_FOUND", << >>)
     ELSE
     LET a == FindNumber(features[f].actions, args.actionNumber)
         old == features[f].actions[a]
         descError == IF args.description = Undefined THEN << >>
                      ELSE validateDescription(args.description, "action")
         statusError == IF args.status = Undefined THEN << >>
                        ELSE validateStatusProgression(old.status, args.status)
         described == Action(old.number,
                             IF args.description = Undefined THEN old.description
                             ELSE args.description,
                             old.status)
         new == Action(old.number, described.description,
                       IF args.status = Undefined THEN old.status ELSE args.status)
         roadmap == [features EXCEPT ![f].actions[a] = new]
         changed == \/ args.description # Undefined /\ old.description # args.description
                    \/ args.status # Undefined /\ old.status # args.status
     IN IF args.description = Undefined /\ args.status = Undefined
        THEN Thrown("NO_CHANGES", << >>)
        ELSE IF descError # << >> THEN Thrown(descError[1].code, descError)
        ELSE IF statusError # << >>
             THEN Returned(Roadmap([features EXCEPT ![f].actions[a] = described]),
                           FALSE, TRUE)
        ELSE IF ~changed THEN Returned(Roadmap(roadmap), FALSE, FALSE)
        ELSE Returned(Roadmap(roadmap), AllCompleted(roadmap), TRUE)

UpdateRoadmapTransform(document, args) ==
  IF document = NoDoc THEN Thrown("ROADMAP_NOT_FOUND", << >>)
  ELSE
  LET features == document.features
      f == TargetFeature(features, args.actionNumber)
  IN IF f = 0 THEN Thrown("ACTION_NOT_FOUND", << >>)
     ELSE
     LET a == FindNumber(features[f].actions, args.actionNumber)
         old == features[f].actions[a]
         descError == IF args.description = Undefined THEN << >>
                      ELSE validateDescription(args.description, "action")
         statusError == IF args.status = Undefined THEN << >>
                        ELSE validateStatusProgression(old.status, args.status)
         new == Action(old.number,
                       IF args.description = Undefined THEN old.description
                       ELSE args.description,
                       IF args.status = Undefined THEN old.status ELSE args.status)
         roadmap == [features EXCEPT ![f].actions[a] = new]
         changed == \/ args.description # Undefined /\ old.description # args.description
                    \/ args.status # Undefined /\ old.status # args.status
     IN IF args.description = Undefined /\ args.status = Undefined
        THEN Thrown("NO_CHANGES", << >>)
        ELSE IF descError # << >> THEN Thrown(descError[1].code, descError)
        ELSE IF statusError # << >> THEN Thrown(statusError[1].code, statusError)
        ELSE IF ~changed THEN Returned(Roadmap(roadmap), FALSE, FALSE)
        ELSE Returned(Roadmap(roadmap), AllCompleted(roadmap), TRUE)

\* ------------------------------------------------------------------------
\* Inputs of the tools
\* ------------------------------------------------------------------------

MaxFeatures == 2          \* features in one createroadmap call
MaxActions == 2           \* actions of one proposed feature
MaxProposalActions == 2   \* actions in one createroadmap call

F1 == << "1" >>
F2 == << "2" >>
A101 == << "1", ".", "0", "1" >>
A102 == << "1", ".", "0", "2" >>
A201 == << "2", ".", "0", "1" >>

InputFeatureNumbers == {F1, F2}
InputActionNumbers == {A101, A102, A201}
InputTitles == {"Auth", "Billing"}
InputDescriptions == {"Login system", "Invoices"}
InputActionDescriptions == {"Build form"}

\* the schema of createroadmap admits only "pending" as an input status
InputActions ==
  {Action(n, d, "pending") : n \in InputActionNumbers, d \in InputActionDescriptions}

\* all sequences over S of length 1..n
RECURSIVE SeqsUpTo(_, _)
SeqsUpTo(S, n) ==
  IF n <= 0 THEN {}
  ELSE IF n = 1 THEN {<< x >> : x \in S}
  ELSE LET shorter == SeqsUpTo(S, n - 1)
       IN shorter \cup {Append(q, x) : q \in {r \in shorter : Len(r) = n - 1}, x \in S}

\* a proposed feature differs from ("Auth", "Login system") in one field at most
InputMetas ==
  {m \in InputTitles \X InputDescriptions : m[1] = "Auth" \/ m[2] = "Login system"}

\* proposed features of at most budget actions; one feature without actions
\* per feature number
InputFeaturesWith(budget) ==
  {Feature(n, m[1], m[2], as) :
     n \in InputFeatureNumbers, m \in InputMetas,
     as \in SeqsUpTo(InputActions, IF budget < MaxActions THEN budget ELSE MaxActions)}
  \cup {Feature(n, "Auth", "Login system", << >>) : n \in InputFeatureNumbers}

\* the createroadmap inputs of exactly k features and at most budget actions
RECURSIVE ProposalsOf(_, _)
ProposalsOf(k, budget) ==
  IF k = 0 THEN {<< >>}
  ELSE UNION {{<< f >> \o rest : rest \in ProposalsOf(k - 1, budget - Len(f.actions))} :
               f \in InputFeaturesWith(budget)}

Proposals == UNION {ProposalsOf(k, MaxProposalActions) : k \in 0..MaxFeatures}

\* an action with another description and a status that the schema does not
\* admit: execute takes it from a caller that does not check the arguments
UncheckedAction == Action(A101, "Ship form", "completed")

UncheckedProposals ==
  {<< Feature(F1, "Auth", "Login system", actions) >> :
     actions \in {<< UncheckedAction >>,
                  << UncheckedAction, Action(A102, "Build form", "pending") >>}}

InputStatuses == validStatuses \cup {"done", Undefined}

UpdateInputs ==
  [actionNumber : InputActionNumbers \cup {<< "1", ".", "1" >>},
   description : {Undefined, "Ship form", " "},
   status : InputStatuses]

\* the createroadmap inputs of the unobserved part of a run
HistoryProposals ==
  {p \in Proposals :
     \A i \in 1..Len(p) : p[i].title = "Auth" /\ p[i].description = "Login system"}

\* the status updates of the unobserved part of a run
HistoryUpdates ==
  [actionNumber : InputActionNumbers, description : {Undefined},
   status : {"in_progress", "completed", "cancelled"}]

NoArgs == [actionNumber |-> << >>, description |-> Undefined, status |-> Undefined]

\* ------------------------------------------------------------------------
\* State
\* ------------------------------------------------------------------------

VARIABLES
  stored,     \* sequential run: the roadmap in the live file, or NoDoc
  call,       \* sequential run: the tool call under observation
  live,       \* the file roadmap.json
  lock,       \* the file roadmap.json.lock
  temps,      \* the files roadmap.json.tmp.<timestamp>.<random>
  archives,   \* the files roadmap.archive.<timestamp>.json
  now,        \* Date.now()
  proc,       \* the processes: where each is in its call, and what it holds
  faults,     \* I/O operations that have failed
  crashes,    \* processes that were killed
  memory,     \* codec: the roadmap in memory
  text,       \* codec: the task list that buildTaskList made of it
  decoded     \* codec: what parseTaskList made of the text

seqVars == << stored, call >>

fsVars == << live, lock, temps, archives, now, proc, faults, crashes >>

codecVars == << memory, text, decoded >>

vars == << stored, call, live, lock, temps, archives, now, proc, faults, crashes,
          memory, text, decoded >>

\* no roadmap is being encoded
IdleCodec ==
  /\ memory = NoDoc
  /\ text = << >>
  /\ decoded = NoDoc

\* ------------------------------------------------------------------------
\* A sequential run: one process, no I/O failure.  Any number of tool calls
\* leave their effect in the store; then one call is observed (its input, the
\* document it read and its outcome are kept) and may be submitted again.
\* ------------------------------------------------------------------------

NoOutcome == Thrown("", << >>)

NoCall == [tool |-> "none", features |-> << >>, args |-> NoArgs,
           current |-> NoDoc, outcome |-> NoOutcome, again |-> FALSE,
           previous |-> NoOutcome]

\* current: the document the call read; previous: the outcome of the first
\* submission, for a call submitted again
ToolCall(tool, features, args, outcome, again, previous) ==
  [tool |-> tool, features |-> features, args |-> args, current |-> stored,
   outcome |-> outcome, again |-> again, previous |-> previous]

\* FileStorage.update with one process and no I/O failure: read, transform,
\* writeAtomic, then archiveUnlocked when the outcome asks for it
UpdateSequential(outcome) ==
  IF ~outcome.ok THEN stored
  ELSE IF outcome.archive THEN NoDoc ELSE outcome.roadmap

\* createroadmap.execute
CreateRoadmapOutcome(current, features) ==
  IF features = << >> THEN Thrown("NO_FEATURES", << >>)
  ELSE CreateRoadmapTransform(current, features)

\* updateroadmap.execute
UpdateRoadmapOutcome(current, args) ==
  LET numberError == validateActionNumber(args.actionNumber)
  IN IF numberError # << >> THEN Thrown(numberError[1].code, numberError)
     ELSE UpdateRoadmapTransform(current, args)

\* ------------------------------------------------------------------------
\* FileStorage: the directory shared by the processes
\* ------------------------------------------------------------------------

NumProcs == 2      \* processes sharing the directory
MaxCalls == 1      \* storage calls of one process
MaxTicks == 2      \* advances of the clock
TickMs == 15001    \* milliseconds of one advance of the clock
MaxFaults == 1     \* I/O operations that fail
MaxCrashes == 1    \* processes that are killed
MaxSleeps == 1     \* retry sleeps of one call that end by the clock reaching them

LOCK_TIMEOUT_MS == 5000
LOCK_RETRY_MS == 50
LOCK_STALE_MS == 30000

Procs == 1..NumProcs

\* a call of a process, which also names the temp file of that call: the
\* timestamp and the random suffix make the name fresh
EarlierRun == << 0, 0 >>

CallId(p) == << p, proc[p].calls >>

\* the content of a file: the text of a roadmap, complete or cut short, and
\* the call that wrote it
File(data, part, by) == [data |-> data, part |-> part, by |-> by]

NoFile == File(NoDoc, "absent", EarlierRun)

NoLock == [held |-> FALSE, pid |-> 0, mtime |-> 0]

\* the sentinel of a process that was killed inside its section, long ago
LeftoverLock == [held |-> TRUE, pid |-> 0, mtime |-> 0 - (LOCK_STALE_MS + 1)]

NoOp == [kind |-> "none", features |-> << >>, args |-> NoArgs]

ConcurrentProposals ==
  {<< Feature(F1, "Auth", "Login system", << Action(n, "Build form", "pending") >>) >> :
     n \in {A101, A102}}
  \cup {<< Feature(F1, "Billing", "Invoices", << Action(A101, "Build form", "pending") >>) >>}

ConcurrentUpdates ==
  {[actionNumber |-> A101, description |-> Undefined, status |-> "completed"],
   [actionNumber |-> A102, description |-> Undefined, status |-> "in_progress"]}

ConcurrentOps ==
  {[kind |-> "createroadmap", features |-> f, args |-> NoArgs] : f \in ConcurrentProposals}
  \cup {[kind |-> "updateroadmap", features |-> << >>, args |-> a] : a \in ConcurrentUpdates}
  \cup {[kind |-> k, features |-> << >>, args |-> NoArgs] : k \in {"read", "archive"}}

\* a roadmap that an earlier run of createroadmap left in the directory
EarlierRoadmap ==
  CreateRoadmapOutcome(NoDoc,
    << Feature(F1, "Auth", "Login system", << Action(A101, "Build form", "pending") >>) >>
  ).roadmap

IdleProc ==
  [pc |-> "idle", op |-> NoOp, calls |-> 0, start |-> 0, current |-> NoFile,
   outcome |-> NoOutcome, status |-> "none", error |-> "", value |-> NoFile,
   wrote |-> FALSE, post |-> NoFile, archived |-> FALSE, archivedOwn |-> FALSE,
   late |-> FALSE, beside |-> FALSE, at |-> "",
   wake |-> 0, sleeps |-> 0, reclaimed |-> FALSE, archivedCompleted |-> FALSE,
   renamed |-> NoFile, synced |-> FALSE, closed |-> FALSE, dirSynced |-> FALSE]

IdleDirectory ==
  /\ live = NoFile
  /\ lock = NoLock
  /\ temps = << >>
  /\ archives = << >>
  /\ now = 0
  /\ proc = [p \in Procs |-> IdleProc]
  /\ faults = 0
  /\ crashes = 0

Init ==
  /\ stored = NoDoc
  /\ call = NoCall
  /\ live \in {NoFile, File(EarlierRoadmap, "full", EarlierRun)}
  /\ lock = NoLock
  /\ temps = << >>
  /\ archives = << >>
  /\ now = 0
  /\ proc = [p \in Procs |-> IdleProc]
  /\ faults = 0
  /\ crashes = 0
  /\ IdleCodec

\* f with x mapped to v
Put(f, x, v) == [y \in DOMAIN f \cup {x} |-> IF y = x THEN v ELSE f[y]]

\* f without x
Remove(f, x) == [y \in DOMAIN f \ {x} |-> f[y]]

\* RoadmapSchema.parse: an object with the array features, every feature with
\* the strings number, title and description and the array actions, every
\* action with the strings number and description and a status of the
\* enumeration.  A key that the text does not have is Undefined here.
ActionSchema(action) ==
  /\ action.description # Undefined
  /\ action.status \in validStatuses

FeatureSchema(feature) ==
  /\ feature.title # Undefined
  /\ feature.description # Undefined
  /\ \A a \in 1..Len(feature.actions) : ActionSchema(feature.actions[a])

RoadmapSchema(value) ==
  /\ value.present
  /\ \A f \in 1..Len(value.features) : FeatureSchema(value.features[f])

\* FileStorage.readFromDisk: null for a missing or blank file, the parsed
\* roadmap, or the error of a text that is no JSON document
ReadFromDisk(file) ==
  IF file.part \in {"absent", "empty"}
  THEN [ok |-> TRUE, error |-> "", doc |-> NoDoc, by |-> EarlierRun]
  ELSE IF file.part = "partial"
  THEN [ok |-> FALSE, error |-> "INVALID_JSON", doc |-> NoDoc, by |-> file.by]
  ELSE IF ~RoadmapSchema(file.data)
  THEN [ok |-> FALSE, error |-> "INVALID_STRUCTURE", doc |-> NoDoc, by |-> file.by]
  ELSE [ok |-> TRUE, error |-> "", doc |-> file.data, by |-> file.by]

\* the transform that the tool passes to storage.update
OpOutcome(op, current) ==
  IF op.kind = "createroadmap" THEN CreateRoadmapOutcome(current, op.features)
  ELSE UpdateRoadmapOutcome(current, op.args)

\* the roadmap that write() is called with, which it persists as it is
Argument(op) ==
  IF op.kind = "write" THEN Returned(Roadmap(op.features), FALSE, TRUE) ELSE NoOutcome

\* the checks of a tool before it calls the storage
PreError(op) ==
  IF op.kind = "createroadmap" /\ op.features = << >> THEN "NO_FEATURES"
  ELSE IF op.kind = "updateroadmap" /\ validateActionNumber(op.args.actionNumber) # << >>
  THEN validateActionNumber(op.args.actionNumber)[1].code
  ELSE ""

\* the call returns or throws
Finished(p, error) ==
  [proc[p] EXCEPT !.pc = "idle", !.status = IF error = "" THEN "ok" ELSE "fail",
                  !.error = error, !.start = 0, !.wake = 0, !.sleeps = 0]

\* the steps of writeAtomic between the open of the temp file and its return
InWriteAtomic == {"write", "sync", "handlesync", "close", "rename", "fsync"}

\* a tool is called
Begin(p, op) ==
  /\ proc[p].pc = "idle"
  /\ proc[p].calls < MaxCalls
  /\ proc' = [proc EXCEPT ![p] =
       IF PreError(op) # ""
       THEN [IdleProc EXCEPT !.calls = proc[p].calls + 1, !.op = op,
                             !.status = "fail", !.error = PreError(op)]
       ELSE [IdleProc EXCEPT !.calls = proc[p].calls + 1, !.op = op,
                             !.status = "running", !.start = now,
                             !.outcome = Argument(op),
                             !.late = \E q \in Procs : proc[q].pc = "crashed",
                             !.pc = IF op.kind = "read" THEN "read"
                                    ELSE IF op.kind = "archive" THEN "exists"
                                    ELSE "acquire"]]
  /\ UNCHANGED << seqVars, codecVars, live, lock, temps, archives, now, faults, crashes >>

\* FileStorage.read, which takes no lock
Read(p) ==
  /\ proc[p].pc = "read"
  /\ LET r == ReadFromDisk(live)
     IN proc' = [proc EXCEPT ![p] =
          [Finished(p, r.error) EXCEPT
             !.value = File(r.doc, live.part, r.by),
             !.beside = \E q \in Procs : proc[q].pc \in InWriteAtomic]]
  /\ UNCHANGED << seqVars, codecVars, live, lock, temps, archives, now, faults, crashes >>

\* FileStorage.archive: the exists() check before the lock
ArchiveExists(p) ==
  /\ proc[p].pc = "exists"
  /\ proc' = [proc EXCEPT ![p] =
       IF live = NoFile THEN Finished(p, "NO_ROADMAP")
       ELSE [proc[p] EXCEPT !.pc = "acquire", !.start = now]]
  /\ UNCHANGED << seqVars, codecVars, live, lock, temps, archives, now, faults, crashes >>

\* what the caller of acquireLock does first with the lock: archive() renames,
\* write() hands its argument to writeAtomic, update() reads the document
AfterAcquire(op) ==
  IF op.kind = "archive" THEN "archive"
  ELSE IF op.kind = "write" THEN "open"
  ELSE "readcurrent"

\* acquireLock returning quietly when the budget is used up, and the call with it
AcquireTry_SilentTimeout(p) ==
  /\ proc[p].pc = "acquire"
  /\ IF ~(now - proc[p].start < LOCK_TIMEOUT_MS)
     THEN /\ proc' = [proc EXCEPT ![p] = Finished(p, "")]
          /\ lock' = lock
     ELSE IF ~lock.held
     THEN /\ lock' = [held |-> TRUE, pid |-> p, mtime |-> now]
          /\ proc' = [proc EXCEPT ![p].wake = 0, ![p].sleeps = 0, ![p].pc =
               AfterAcquire(proc[p].op)]
     ELSE /\ proc' = [proc EXCEPT ![p].pc = "stat", ![p].reclaimed = FALSE]
          /\ lock' = lock
  /\ UNCHANGED << seqVars, codecVars, live, temps, archives, now, faults, crashes >>

\* acquireLock with a loop that has no wait budget
AcquireTry_NoBudget(p) ==
  /\ proc[p].pc = "acquire"
  /\ IF ~lock.held
     THEN /\ lock' = [held |-> TRUE, pid |-> p, mtime |-> now]
          /\ proc' = [proc EXCEPT ![p].wake = 0, ![p].sleeps = 0, ![p].pc =
               AfterAcquire(proc[p].op)]
     ELSE /\ proc' = [proc EXCEPT ![p].pc = "stat", ![p].reclaimed = FALSE]
          /\ lock' = lock
  /\ UNCHANGED << seqVars, codecVars, live, temps, archives, now, faults, crashes >>

\* acquireLock: the test of the loop and the exclusive create of the sentinel
AcquireTry(p) ==
  /\ proc[p].pc = "acquire"
  /\ IF ~(now - proc[p].start < LOCK_TIMEOUT_MS)
     THEN /\ proc' = [proc EXCEPT ![p] = Finished(p, "LOCK_TIMEOUT")]
          /\ lock' = lock
     ELSE IF ~lock.held
     THEN /\ lock' = [held |-> TRUE, pid |-> p, mtime |-> now]
          /\ proc' = [proc EXCEPT ![p].wake = 0, ![p].sleeps = 0, ![p].pc =
               AfterAcquire(proc[p].op)]
     ELSE /\ proc' = [proc EXCEPT ![p].pc = "stat", ![p].reclaimed = FALSE]
          /\ lock' = lock
  /\ UNCHANGED << seqVars, codecVars, live, temps, archives, now, faults, crashes >>

\* the staleness threshold taken for seconds
IsStale_Seconds(sentinel, time) ==
  sentinel.held /\ time - sentinel.mtime > LOCK_STALE_MS * 1000

\* Date.now() - stat.mtimeMs > LOCK_STALE_MS; false when the sentinel is gone
IsStale(sentinel, time) == sentinel.held /\ time - sentinel.mtime > LOCK_STALE_MS

\* acquireLock: the stat of the sentinel; when it is not stale (or is gone) the
\* process sleeps LOCK_RETRY_MS before the next test of the loop
AcquireStat(p) ==
  /\ proc[p].pc = "stat"
  /\ proc' = [proc EXCEPT ![p] =
       IF IsStale(lock, now)
       THEN [proc[p] EXCEPT !.pc = "unlinkstale"]
       ELSE [proc[p] EXCEPT !.pc = "sleep", !.wake = now + LOCK_RETRY_MS,
                            !.sleeps = proc[p].sleeps + 1]]
  /\ UNCHANGED << seqVars, codecVars, live, lock, temps, archives, now, faults, crashes >>

\* acquireLock: the timer of the sleep fires
AcquireSleep(p) ==
  /\ proc[p].pc = "sleep"
  /\ now >= proc[p].wake
  /\ proc' = [proc EXCEPT ![p].pc = "acquire"]
  /\ UNCHANGED << seqVars, codecVars, live, lock, temps, archives, now, faults, crashes >>

\* acquireLock: the unlink of a sentinel that was found stale, then continue
AcquireUnlink(p) ==
  /\ proc[p].pc = "unlinkstale"
  /\ lock' = NoLock
  /\ proc' = [proc EXCEPT ![p].pc = "acquire", ![p].reclaimed = TRUE]
  /\ UNCHANGED << seqVars, codecVars, live, temps, archives, now, faults, crashes >>

\* acquireLock: the unlink rejects, which the catch swallows, then continue
AcquireUnlinkFails(p) ==
  /\ proc[p].pc = "unlinkstale"
  /\ lock.held
  /\ proc' = [proc EXCEPT ![p].pc = "acquire"]
  /\ UNCHANGED << seqVars, codecVars, live, lock, temps, archives, now, faults, crashes >>

\* update going on to the write whatever the transform did
UpdateRead_WritesAnyway(p) ==
  /\ proc[p].pc = "readcurrent"
  /\ LET r == ReadFromDisk(live)
         outcome == IF r.ok THEN OpOutcome(proc[p].op, r.doc) ELSE Thrown(r.error, << >>)
     IN proc' = [proc EXCEPT ![p].current = live, ![p].outcome = outcome,
                             ![p].error = outcome.error, ![p].pc = "open"]
  /\ UNCHANGED << seqVars, codecVars, live, lock, temps, archives, now, faults, crashes >>

\* update: readFromDisk and the transform
UpdateRead(p) ==
  /\ proc[p].pc = "readcurrent"
  /\ LET r == ReadFromDisk(live)
         outcome == IF r.ok THEN OpOutcome(proc[p].op, r.doc) ELSE Thrown(r.error, << >>)
     IN proc' = [proc EXCEPT ![p].current = live, ![p].outcome = outcome,
                             ![p].error = outcome.error,
                             ![p].pc = IF outcome.ok THEN "open" ELSE "unlock"]
  /\ UNCHANGED << seqVars, codecVars, live, lock, temps, archives, now, faults, crashes >>

\* writeAtomic: fs.open(tempPath, "w"); the directory after it
WriteAtomicOpen_InPlace(id) ==
  [live |-> File(NoDoc, "empty", id), temps |-> Put(temps, id, File(NoDoc, "empty", id))]

WriteAtomicOpen(id) ==
  [live |-> live, temps |-> Put(temps, id, File(NoDoc, "empty", id))]

\* writeAtomic: handle.writeFile(data), which reaches the file in two parts
WriteAtomicData_InPlace(id, data, part) ==
  [live |-> File(data, part, id), temps |-> Put(temps, id, File(data, part, id))]

WriteAtomicData(id, data, part) ==
  [live |-> live, temps |-> Put(temps, id, File(data, part, id))]

\* writeAtomic copying the temp file into place and leaving it
WriteAtomicRename_Copy(id) ==
  [live |-> temps[id], temps |-> temps]

\* writeAtomic: fs.rename(tempPath, filePath)
WriteAtomicRename(id) ==
  [live |-> temps[id], temps |-> Remove(temps, id)]

WaOpen(p) ==
  /\ proc[p].pc = "open"
  /\ live' = WriteAtomicOpen(CallId(p)).live
  /\ temps' = WriteAtomicOpen(CallId(p)).temps
  /\ proc' = [proc EXCEPT ![p].pc = "write"]
  /\ UNCHANGED << seqVars, codecVars, lock, archives, now, faults, crashes >>

WaWrite(p) ==
  /\ proc[p].pc \in {"write", "sync"}
  /\ LET part == IF proc[p].pc = "write" THEN "partial" ELSE "full"
         dir == WriteAtomicData(CallId(p), proc[p].outcome.roadmap, part)
     IN /\ live' = dir.live
        /\ temps' = dir.temps
  /\ proc' = [proc EXCEPT ![p].pc = IF proc[p].pc = "write" THEN "sync" ELSE "handlesync"]
  /\ UNCHANGED << seqVars, codecVars, lock, archives, now, faults, crashes >>

\* writeAtomic going on to the close without the sync of the content
WaSync_Skipped(p) ==
  /\ proc[p].pc = "handlesync"
  /\ proc' = [proc EXCEPT ![p].pc = "close"]
  /\ UNCHANGED << seqVars, codecVars, live, lock, temps, archives, now, faults, crashes >>

\* writeAtomic: handle.sync(), the content of the temp file reaches the disk
WaSync(p) ==
  /\ proc[p].pc = "handlesync"
  /\ proc' = [proc EXCEPT ![p].pc = "close", ![p].synced = TRUE]
  /\ UNCHANGED << seqVars, codecVars, live, lock, temps, archives, now, faults, crashes >>

\* writeAtomic: handle.close()
WaClose(p) ==
  /\ proc[p].pc = "close"
  /\ proc' = [proc EXCEPT ![p].pc = "rename", ![p].closed = TRUE]
  /\ UNCHANGED << seqVars, codecVars, live, lock, temps, archives, now, faults, crashes >>

WaRename(p) ==
  /\ proc[p].pc = "rename"
  /\ live' = WriteAtomicRename(CallId(p)).live
  /\ temps' = WriteAtomicRename(CallId(p)).temps
  /\ proc' = [proc EXCEPT ![p].pc = "fsync", ![p].wrote = TRUE,
                          ![p].post = temps[CallId(p)]]
  /\ UNCHANGED << seqVars, codecVars, lock, archives, now, faults, crashes >>

\* writeAtomic: fsyncDir; then update goes on to the archive or to the result
WaFsync(p) ==
  /\ proc[p].pc = "fsync"
  /\ proc' = [proc EXCEPT ![p].pc = IF proc[p].outcome.archive THEN "archive" ELSE "unlock",
                          ![p].dirSynced = TRUE]
  /\ UNCHANGED << seqVars, codecVars, live, lock, temps, archives, now, faults, crashes >>

\* archiveUnlocked going on without an error when there is no file to rename
ArchiveRename_IgnoresMissing(p) ==
  /\ proc[p].pc = "archive"
  /\ IF live = NoFile
     THEN /\ proc' = [proc EXCEPT ![p].pc = "archivefsync"]
          /\ UNCHANGED << live, archives >>
     ELSE /\ archives' = Put(archives, now, live)
          /\ live' = NoFile
          /\ proc' = [proc EXCEPT ![p].pc = "archivefsync", ![p].wrote = TRUE,
                                  ![p].archived = TRUE, ![p].post = NoFile,
                                  ![p].renamed = live,
                                  ![p].archivedOwn =
                                    (live = File(proc[p].outcome.roadmap, "full", CallId(p))),
                                  ![p].archivedCompleted =
                                    (live.part = "full" /\ AllCompleted(live.data.features))]
  /\ UNCHANGED << seqVars, codecVars, lock, temps, now, faults, crashes >>

\* archiveUnlocked: fs.rename(filePath, archivePath), the name made of the time
ArchiveRename(p) ==
  /\ proc[p].pc = "archive"
  /\ IF live = NoFile
     THEN /\ proc' = [proc EXCEPT ![p].pc = "unlock", ![p].error = "ENOENT"]
          /\ UNCHANGED << live, archives >>
     ELSE /\ archives' = Put(archives, now, live)
          /\ live' = NoFile
          /\ proc' = [proc EXCEPT ![p].pc = "archivefsync", ![p].wrote = TRUE,
                                  ![p].archived = TRUE, ![p].post = NoFile,
                                  ![p].renamed = live,
                                  ![p].archivedOwn =
                                    (live = File(proc[p].outcome.roadmap, "full", CallId(p))),
                                  ![p].archivedCompleted =
                                    (live.part = "full" /\ AllCompleted(live.data.features))]
  /\ UNCHANGED << seqVars, codecVars, lock, temps, now, faults, crashes >>

\* archiveUnlocked: fsyncDir
ArchiveFsync(p) ==
  /\ proc[p].pc = "archivefsync"
  /\ proc' = [proc EXCEPT ![p].pc = "unlock"]
  /\ UNCHANGED << seqVars, codecVars, live, lock, temps, archives, now, faults, crashes >>

\* finally: unlock(), which unlinks the sentinel whoever made it, then the
\* call returns its result or rethrows
Unlock(p) ==
  /\ proc[p].pc = "unlock"
  /\ lock' = NoLock
  /\ proc' = [proc EXCEPT ![p] = Finished(p, proc[p].error)]
  /\ UNCHANGED << seqVars, codecVars, live, temps, archives, now, faults, crashes >>

FaultPoints == {"readcurrent", "open", "write", "sync", "handlesync", "close",
                "rename", "fsync",
                "archive", "archivefsync"}

\* an I/O operation rejects and the error leaves the call at once, without the
\* finally that releases the lock
Fault_NoFinally(p) ==
  /\ faults < MaxFaults
  /\ proc[p].pc \in FaultPoints
  /\ faults' = faults + 1
  /\ temps' = IF CallId(p) \in DOMAIN temps THEN Remove(temps, CallId(p)) ELSE temps
  /\ proc' = [proc EXCEPT ![p] = Finished(p, "IO_ERROR")]
  /\ UNCHANGED << seqVars, codecVars, live, lock, archives, now, crashes >>

\* an I/O operation rejects: writeAtomic's catch unlinks the temp file, and the
\* error reaches the finally of the call
Fault(p) ==
  /\ faults < MaxFaults
  /\ proc[p].pc \in FaultPoints
  /\ faults' = faults + 1
  /\ temps' = IF CallId(p) \in DOMAIN temps THEN Remove(temps, CallId(p)) ELSE temps
  /\ proc' = [proc EXCEPT ![p].pc = "unlock", ![p].error = "IO_ERROR"]
  /\ UNCHANGED << seqVars, codecVars, live, lock, archives, now, crashes >>

\* the process is killed in the middle of a call
Crash(p) ==
  /\ crashes < MaxCrashes
  /\ proc[p].pc \notin {"idle", "crashed"}
  /\ crashes' = crashes + 1
  /\ proc' = [proc EXCEPT ![p].pc = "crashed", ![p].at = proc[p].pc,
                          ![p].status = "crashed"]
  /\ UNCHANGED << seqVars, codecVars, live, lock, temps, archives, now, faults >>

\* the steps of the loop of acquireLock
Acquiring == {"acquire", "stat", "unlinkstale", "sleep"}

\* a process waits for the clock: its wait budget or its sleep is running
ClockAwaited ==
  \E p \in Procs :
    \/ proc[p].pc \in Acquiring /\ now - proc[p].start < LOCK_TIMEOUT_MS
    \/ proc[p].pc = "sleep" /\ now < proc[p].wake

\* time passes
Tick ==
  /\ now < MaxTicks * TickMs \/ ClockAwaited
  /\ now' = now + TickMs
  /\ UNCHANGED << seqVars, codecVars, live, lock, temps, archives, proc, faults, crashes >>

\* time passes until the sleep of a process is over
Elapse ==
  /\ \E p \in Procs :
       /\ proc[p].pc = "sleep"
       /\ now < proc[p].wake
       /\ proc[p].sleeps <= MaxSleeps
       /\ now' = proc[p].wake
  /\ UNCHANGED << seqVars, codecVars, live, lock, temps, archives, proc, faults, crashes >>

Next ==
  \/ \E p \in Procs : \E op \in ConcurrentOps : Begin(p, op)
  \/ \E p \in Procs : Read(p)
  \/ \E p \in Procs : ArchiveExists(p)
  \/ \E p \in Procs : AcquireTry(p)
  \/ \E p \in Procs : AcquireStat(p)
  \/ \E p \in Procs : AcquireSleep(p)
  \/ \E p \in Procs : AcquireUnlink(p)
  \/ \E p \in Procs : AcquireUnlinkFails(p)
  \/ \E p \in Procs : UpdateRead(p)
  \/ \E p \in Procs : WaOpen(p)
  \/ \E p \in Procs : WaWrite(p)
  \/ \E p \in Procs : WaSync(p)
  \/ \E p \in Procs : WaClose(p)
  \/ \E p \in Procs : WaRename(p)
  \/ \E p \in Procs : WaFsync(p)
  \/ \E p \in Procs : ArchiveRename(p)
  \/ \E p \in Procs : ArchiveFsync(p)
  \/ \E p \in Procs : Unlock(p)
  \/ \E p \in Procs : Fault(p)
  \/ \E p \in Procs : Crash(p)
  \/ Tick
  \/ Elapse

Spec == Init /\ [][Next]_vars

\* ------------------------------------------------------------------------
\* acquireLock against every behaviour of the other users of the directory
\* ------------------------------------------------------------------------

\* the sentinel of a process outside the model, created at the given time
OtherLock(time) == [held |-> TRUE, pid |-> 0, mtime |-> time]

LockInit ==
  /\ stored = NoDoc
  /\ call = NoCall
  /\ live = NoFile
  /\ lock \in {NoLock, LeftoverLock, OtherLock(0)}
  /\ temps = << >>
  /\ archives = << >>
  /\ now = 0
  /\ proc = [p \in Procs |-> IdleProc]
  /\ faults = 0
  /\ crashes = 0
  /\ IdleCodec

\* another process creates the sentinel when there is none
OtherAcquires ==
  /\ ~lock.held
  /\ lock' = OtherLock(now)
  /\ UNCHANGED << seqVars, codecVars, live, temps, archives, now, proc, faults, crashes >>

\* another process unlinks the sentinel it made
OtherReleases ==
  /\ lock.held
  /\ lock.pid = 0
  /\ lock' = NoLock
  /\ UNCHANGED << seqVars, codecVars, live, temps, archives, now, proc, faults, crashes >>

LockOps == {op \in ConcurrentOps : op.kind = "updateroadmap" /\ op.args.actionNumber = A101}

LockNext ==
  \/ \E p \in Procs : \E op \in LockOps : Begin(p, op)
  \/ \E p \in Procs : AcquireTry(p)
  \/ \E p \in Procs : AcquireStat(p)
  \/ \E p \in Procs : AcquireSleep(p)
  \/ \E p \in Procs : AcquireUnlink(p)
  \/ \E p \in Procs : AcquireUnlinkFails(p)
  \/ OtherAcquires
  \/ OtherReleases
  \/ Tick
  \/ Elapse

\* the clock advances and every await of acquireLock settles
LockFairness ==
  /\ WF_vars(Tick)
  /\ \A p \in Procs :
       /\ WF_vars(AcquireTry(p))
       /\ WF_vars(AcquireStat(p))
       /\ WF_vars(AcquireSleep(p))
       /\ WF_vars(AcquireUnlink(p) \/ AcquireUnlinkFails(p))

LockSpec == LockInit /\ [][LockNext]_vars /\ LockFairness

\* ------------------------------------------------------------------------
\* FileStorage.write and FileStorage.read on every kind of file
\* ------------------------------------------------------------------------

BuildForm(number) == Action(number, "Build form", "pending")

\* the roadmaps that write() is called with: one that follows the rules of the
\* data model, a feature without actions, an identifier used twice, and an
\* action under a feature of another number
WriteArguments ==
  {<< Feature(F1, "Auth", "Login system", << BuildForm(A101) >>) >>,
   << Feature(F1, "Auth", "Login system", << >>) >>,
   << Feature(F1, "Auth", "Login system", << BuildForm(A101), BuildForm(A101) >>) >>,
   << Feature(F1, "Auth", "Login system", << BuildForm(A201) >>) >>}

\* JSON texts that RoadmapSchema rejects: a feature without the key title, and
\* an action with a status outside the enumeration
OffSchema ==
  {<< Feature(F1, Undefined, "Login system", << BuildForm(A101) >>) >>,
   << Feature(F1, "Auth", "Login system", << Action(A101, "Build form", "done") >>) >>}

\* what roadmap.json holds at the start: nothing, blanks, a text cut short,
\* the text "null", or the JSON text of a value
StoreFiles ==
  {NoFile, File(NoDoc, "empty", EarlierRun), File(EarlierRoadmap, "partial", EarlierRun),
   File(NoDoc, "full", EarlierRun)}
  \cup {File(Roadmap(features), "full", EarlierRun) : features \in WriteArguments \cup OffSchema}

StoreOps ==
  {[kind |-> "write", features |-> features, args |-> NoArgs] : features \in WriteArguments}
  \cup {[kind |-> "read", features |-> << >>, args |-> NoArgs]}

StoreInit ==
  /\ stored = NoDoc
  /\ call = NoCall
  /\ live \in StoreFiles
  /\ lock = NoLock
  /\ temps = << >>
  /\ archives = << >>
  /\ now = 0
  /\ proc = [p \in Procs |-> IdleProc]
  /\ faults = 0
  /\ crashes = 0
  /\ IdleCodec

StoreNext ==
  \/ \E p \in Procs : \E op \in StoreOps : Begin(p, op)
  \/ \E p \in Procs : Read(p)
  \/ \E p \in Procs : AcquireTry(p)
  \/ \E p \in Procs : AcquireStat(p)
  \/ \E p \in Procs : AcquireSleep(p)
  \/ \E p \in Procs : AcquireUnlink(p)
  \/ \E p \in Procs : AcquireUnlinkFails(p)
  \/ \E p \in Procs : WaOpen(p)
  \/ \E p \in Procs : WaWrite(p)
  \/ \E p \in Procs : WaSync(p)
  \/ \E p \in Procs : WaClose(p)
  \/ \E p \in Procs : WaRename(p)
  \/ \E p \in Procs : WaFsync(p)
  \/ \E p \in Procs : Unlock(p)
  \/ Tick
  \/ Elapse

StoreSpec == StoreInit /\ [][StoreNext]_vars

\* ------------------------------------------------------------------------
\* The sequential run
\* ------------------------------------------------------------------------

SeqInit ==
  /\ stored = NoDoc
  /\ call = NoCall
  /\ IdleDirectory
  /\ IdleCodec

CreateRoadmap(features, observed) ==
  /\ call.tool = "none"
  /\ LET outcome == CreateRoadmapOutcome(stored, features)
     IN /\ stored' = UpdateSequential(outcome)
        /\ call' = IF observed
                   THEN ToolCall("createroadmap", features, NoArgs, outcome, FALSE, NoOutcome)
                   ELSE call
  /\ UNCHANGED << fsVars, codecVars >>

UpdateRoadmap(args, observed) ==
  /\ call.tool = "none"
  /\ LET outcome == UpdateRoadmapOutcome(stored, args)
     IN /\ stored' = UpdateSequential(outcome)
        /\ call' = IF observed
                   THEN ToolCall("updateroadmap", << >>, args, outcome, FALSE, NoOutcome)
                   ELSE call
  /\ UNCHANGED << fsVars, codecVars >>

\* the observed createroadmap call is submitted a second time
CreateRoadmapAgain ==
  /\ call.tool = "createroadmap"
  /\ ~call.again
  /\ LET outcome == CreateRoadmapOutcome(stored, call.features)
     IN /\ stored' = UpdateSequential(outcome)
        /\ call' = ToolCall("createroadmap", call.features, NoArgs, outcome, TRUE,
                             call.outcome)
  /\ UNCHANGED << fsVars, codecVars >>

SeqNext ==
  \/ \E features \in HistoryProposals : CreateRoadmap(features, FALSE)
  \/ \E args \in HistoryUpdates : UpdateRoadmap(args, FALSE)
  \/ \E features \in Proposals \cup UncheckedProposals : CreateRoadmap(features, TRUE)
  \/ \E args \in UpdateInputs : UpdateRoadmap(args, TRUE)
  \/ CreateRoadmapAgain

SeqSpec == SeqInit /\ [][SeqNext]_vars

\* ------------------------------------------------------------------------
\* The document codec (src/src/roadmap/document.ts)
\* ------------------------------------------------------------------------
\* A text is a sequence of characters.  The words that the encoder writes and
\* the parser looks for ("###", "Feature", "Description:", "## Task List") are
\* one character each; titles and descriptions are texts of CodecChars.

MaxText == 2            \* characters of a title or a description
MaxCodecFeatures == 1   \* features of the roadmap that is encoded
MaxCodecActions == 2    \* actions of one of its features

CodecChars == {"a", " ", "\n"}

Whitespace == {" ", "\n"}

TASK_LIST_HEADER == << "## Task List" >>

\* String.trimStart, String.trimEnd and String.trim
RECURSIVE TrimStart(_)
TrimStart(s) ==
  IF s # << >> /\ s[1] \in Whitespace THEN TrimStart(Tail(s)) ELSE s

RECURSIVE TrimEnd(_)
TrimEnd(s) ==
  IF s # << >> /\ s[Len(s)] \in Whitespace THEN TrimEnd(SubSeq(s, 1, Len(s) - 1)) ELSE s

TrimText(s) == TrimEnd(TrimStart(s))

\* lines.join("\n")
RECURSIVE JoinLines(_)
JoinLines(lines) ==
  IF lines = << >> THEN << >>
  ELSE IF Len(lines) = 1 THEN lines[1]
  ELSE lines[1] \o << "\n" >> \o JoinLines(Tail(lines))

\* body.split("\n"); line is the part of the current line that was read
RECURSIVE SplitLinesFrom(_, _)
SplitLinesFrom(rest, line) ==
  IF rest = << >> THEN << line >>
  ELSE IF rest[1] = "\n" THEN << line >> \o SplitLinesFrom(Tail(rest), << >>)
  ELSE SplitLinesFrom(Tail(rest), Append(line, rest[1]))

SplitLines(body) == SplitLinesFrom(body, << >>)

\* the longest prefix of digits, which is what \d+ takes
RECURSIVE LeadingDigits(_)
LeadingDigits(s) ==
  IF s # << >> /\ s[1] \in Digits THEN << s[1] >> \o LeadingDigits(Tail(s)) ELSE << >>

\* s without its first n characters
Drop(s, n) == SubSeq(s, n + 1, Len(s))

renderAction_AllPending(status) == << "-", " ", "[", " ", "]" >>

renderAction(status) ==
  IF status = "completed" THEN << "-", " ", "[", "x", "]" >>
  ELSE IF status = "in_progress" THEN << "-", " ", "[", "~", "]" >>
  ELSE IF status = "cancelled" THEN << "-", " ", "[", "-", "]" >>
  ELSE << "-", " ", "[", " ", "]" >>

\* buildTaskList: the lines of one feature
RECURSIVE ActionLines(_)
ActionLines(actions) ==
  IF actions = << >> THEN << >>
  ELSE << renderAction(actions[1].status) \o << " " >> \o actions[1].number
            \o << " " >> \o actions[1].description >>
       \o ActionLines(Tail(actions))

FeatureLines(feature) ==
  << << "###", " ", "Feature", " " >> \o feature.number \o << ":", " " >> \o feature.title,
     << "Description:", " " >> \o feature.description >>
  \o ActionLines(feature.actions)
  \o << << >> >>

RECURSIVE TaskLines(_)
TaskLines(features) ==
  IF features = << >> THEN << >>
  ELSE FeatureLines(features[1]) \o TaskLines(Tail(features))

buildTaskList(roadmap) == JoinLines(TaskLines(roadmap.features))

\* buildDocument: the text after the frontmatter, which is the body that
\* splitFrontmatter hands to parseTaskList (the lines of the frontmatter are
\* indented or JSON-quoted, so that its end is found where it was written)
buildDocument(roadmap) ==
  JoinLines(<< << >>, TASK_LIST_HEADER, << >>, buildTaskList(roadmap) >>)

STATUS_MAP ==
  [marker \in {" ", "x", "X", "~", "-"} |->
     IF marker = " " THEN "pending"
     ELSE IF marker \in {"x", "X"} THEN "completed"
     ELSE IF marker = "~" THEN "in_progress"
     ELSE "cancelled"]

NoMatch == [matched |-> FALSE, number |-> << >>, rest |-> << >>, marker |-> " "]

\* trimmed.match(/^#+\s*Feature\s+(\d+)\s*:\s*(.+)$/)
featureMatch(trimmed) ==
  LET afterHashes == TrimStart(Tail(trimmed))
      afterWord == Tail(afterHashes)
      atNumber == TrimStart(afterWord)
      number == LeadingDigits(atNumber)
      atColon == TrimStart(Drop(atNumber, Len(number)))
      title == TrimStart(Tail(atColon))
  IN IF /\ trimmed # << >> /\ trimmed[1] = "###"
        /\ afterHashes # << >> /\ afterHashes[1] = "Feature"
        /\ Len(atNumber) < Len(afterWord)
        /\ number # << >>
        /\ atColon # << >> /\ atColon[1] = ":"
        /\ title # << >>
     THEN [matched |-> TRUE, number |-> number, rest |-> title, marker |-> " "]
     ELSE NoMatch

\* trimmed.match(/^Description:\s*(.+)$/)
descriptionMatch(trimmed) ==
  LET description == TrimStart(Tail(trimmed))
  IN IF trimmed # << >> /\ trimmed[1] = "Description:" /\ description # << >>
     THEN [matched |-> TRUE, number |-> << >>, rest |-> description, marker |-> " "]
     ELSE NoMatch

\* trimmed.match(/^-\s*\[([ xX~-])\]\s+(\d+\.\d{2})\s+(.+)$/)
actionMatch(trimmed) ==
  LET atBracket == TrimStart(Tail(trimmed))
      afterBracket == Drop(atBracket, 3)
      atNumber == TrimStart(afterBracket)
      whole == LeadingDigits(atNumber)
      atDot == Drop(atNumber, Len(whole))
      afterNumber == Drop(atDot, 3)
      description == TrimStart(afterNumber)
  IN IF /\ trimmed # << >> /\ trimmed[1] = "-"
        /\ Len(atBracket) >= 3 /\ atBracket[1] = "["
        /\ atBracket[2] \in DOMAIN STATUS_MAP /\ atBracket[3] = "]"
        /\ Len(atNumber) < Len(afterBracket)
        /\ whole # << >>
        /\ Len(atDot) >= 3 /\ atDot[1] = "."
        /\ atDot[2] \in Digits /\ atDot[3] \in Digits
        /\ Len(description) < Len(afterNumber)
        /\ description # << >>
     THEN [matched |-> TRUE, number |-> whole \o SubSeq(atDot, 1, 3),
           rest |-> description, marker |-> atBracket[2]]
     ELSE NoMatch

\* what parseDocument returns or throws
Parsed(features) == [ok |-> TRUE, error |-> "", roadmap |-> Roadmap(features)]

ParseError(error) == [ok |-> FALSE, error |-> error, roadmap |-> NoDoc]

NoFeature == Feature(<< >>, << >>, << >>, << >>)

\* parseTaskList: the loop over the lines.  current is currentFeature, and
\* open tells that it is not null
RECURSIVE ParseLines(_, _, _, _)
ParseLines(lines, features, current, open) ==
  IF lines = << >>
  THEN [error |-> "", features |-> IF open THEN Append(features, current) ELSE features]
  ELSE
    LET trimmed == TrimText(lines[1])
        f == featureMatch(trimmed)
        d == descriptionMatch(trimmed)
        a == actionMatch(trimmed)
    IN IF trimmed = << >> \/ trimmed = TASK_LIST_HEADER
       THEN ParseLines(Tail(lines), features, current, open)
       ELSE IF f.matched
       THEN ParseLines(Tail(lines),
                       IF open THEN Append(features, current) ELSE features,
                       Feature(f.number, f.rest, << >>, << >>), TRUE)
       ELSE IF d.matched
       THEN IF ~open THEN [error |-> "DESCRIPTION_WITHOUT_FEATURE", features |-> << >>]
            ELSE ParseLines(Tail(lines), features,
                            [current EXCEPT !.description = d.rest], open)
       ELSE IF a.matched
       THEN IF ~open THEN [error |-> "ACTION_WITHOUT_FEATURE", features |-> << >>]
            ELSE IF SplitPrefix(a.number) # current.number
            THEN [error |-> "ACTION_OF_OTHER_FEATURE", features |-> << >>]
            ELSE ParseLines(Tail(lines), features,
                   [current EXCEPT !.actions =
                      Append(@, Action(a.number, a.rest, STATUS_MAP[a.marker]))],
                   open)
       ELSE ParseLines(Tail(lines), features, current, open)

\* parseTaskList: the checks after the loop, feature by feature
RECURSIVE FeatureCheck(_)
FeatureCheck(features) ==
  IF features = << >> THEN ""
  ELSE IF features[1].description = << >> THEN "MISSING_DESCRIPTION"
  ELSE IF features[1].actions = << >> THEN "NO_ACTIONS"
  ELSE FeatureCheck(Tail(features))

parseTaskList(body) ==
  LET loop == ParseLines(SplitLines(body), << >>, NoFeature, FALSE)
  IN IF loop.error # "" THEN ParseError(loop.error)
     ELSE IF loop.features = << >> THEN ParseError("MISSING_TASK_LIST")
     ELSE IF FeatureCheck(loop.features) # "" THEN ParseError(FeatureCheck(loop.features))
     ELSE Parsed(loop.features)

\* the roadmaps that are encoded: identifiers in sequence, every status, and
\* titles and descriptions that validateTitle and validateDescription accept
CodecTexts == {t \in SeqsUpTo(CodecChars, MaxText) : TrimText(t) # << >>}

CodecNumber(n) == << "0", "1", "2", "3", "4", "5", "6", "7", "8", "9" >>[n + 1]

CodecActionNumber(f, a) == << CodecNumber(f), ".", "0", CodecNumber(a) >>

\* the descriptions and statuses of the actions of one feature
CodecActionLists ==
  UNION {[1..k -> CodecTexts \X validStatuses] : k \in 1..MaxCodecActions}

\* the roadmap of features 1..n: meta[f] is the title and the description of
\* feature f, and actions[f] the descriptions and statuses of its actions
CodecRoadmap(n, meta, actions) ==
  Roadmap([f \in 1..n |->
    Feature(<< CodecNumber(f) >>, meta[f][1], meta[f][2],
            [a \in 1..Len(actions[f]) |->
               Action(CodecActionNumber(f, a), actions[f][a][1], actions[f][a][2])])])

CodecInit ==
  /\ stored = NoDoc
  /\ call = NoCall
  /\ IdleDirectory
  /\ \E n \in 1..MaxCodecFeatures :
       \E meta \in [1..n -> CodecTexts \X CodecTexts] :
         \E actions \in [1..n -> CodecActionLists] :
           memory = CodecRoadmap(n, meta, actions)
  /\ text = << >>
  /\ decoded = ParseError("")

\* the storage encodes the document that it is about to persist
BuildDocument ==
  /\ text = << >>
  /\ text' = buildDocument(memory)
  /\ UNCHANGED << seqVars, fsVars, memory, decoded >>

\* the storage decodes the text that it read back
ParseDocument ==
  /\ text # << >>
  /\ decoded = ParseError("")
  /\ decoded' = parseTaskList(text)
  /\ UNCHANGED << seqVars, fsVars, memory, text >>

\* the status markers that a hand puts into the file: one that STATUS_MAP
\* does not know
EditMarkers == {"?"}

\* position i of the text is the status marker of an action line
AtMarker(i) ==
  /\ i > 3 /\ i < Len(text)
  /\ text[i - 3] = "-" /\ text[i - 2] = " " /\ text[i - 1] = "[" /\ text[i + 1] = "]"
  /\ i - 3 = 1 \/ text[i - 4] = "\n"

\* the file is edited by hand before it is read back: the status marker of
\* one action line is replaced
EditDocument ==
  /\ text # << >>
  /\ decoded = ParseError("")
  /\ \E i \in 1..Len(text) : \E marker \in EditMarkers :
       /\ AtMarker(i)
       /\ text[i] # marker
       /\ text' = [text EXCEPT ![i] = marker]
  /\ UNCHANGED << seqVars, fsVars, memory, decoded >>

CodecNext ==
  \/ BuildDocument
  \/ EditDocument
  \/ ParseDocument

CodecSpec == CodecInit /\ [][CodecNext]_vars

\* ------------------------------------------------------------------------
\* Claims about the merge and the status update (SeqSpec)
\* ------------------------------------------------------------------------

ObservedCreate == call.tool = "createroadmap"

ObservedUpdate == call.tool = "updateroadmap"

\* the proposal names an existing feature number with another title or description
Offending(current, features) ==
  \E i \in 1..Len(features) :
    LET at == FindNumber(current.features, features[i].number)
    IN at # 0 /\ (\/ current.features[at].title # features[i].title
                  \/ current.features[at].description # features[i].description)

\* the proposal passes the two validation passes over the input
InputValid(features) ==
  /\ features # << >>
  /\ \A i \in 1..Len(features) : features[i].actions # << >>
  /\ FirstPass(features) = << >>
  /\ validateFeatureSequence(features) = << >>

\* C6 as claimed: a merge whose proposal changes the title or the description of
\* an existing feature always fails with the immutable-feature error and leaves
\* the stored document unchanged.
C6_AlwaysImmutableError ==
  ObservedCreate /\ Offending(call.current, call.features)
    => call.outcome.error = "IMMUTABLE_FEATURE" /\ stored = call.current

\* C6 amended: such a merge always fails and leaves the stored document
\* unchanged; the error is the immutable-feature error whenever the proposal
\* passes the validation of the input, which runs first.
C6_ImmutableFeatureRejected ==
  ObservedCreate /\ Offending(call.current, call.features)
    => /\ ~call.outcome.ok
       /\ stored = call.current
       /\ InputValid(call.features) => call.outcome.error = "IMMUTABLE_FEATURE"

\* a valid new feature was processed before the offending one
C6_Witness ==
  /\ ObservedCreate
  /\ Len(call.features) = 2
  /\ InputValid(call.features)
  /\ FindNumber(call.current.features, call.features[1].number) = 0
  /\ Offending(call.current, << call.features[2] >>)
  /\ call.outcome.error = "IMMUTABLE_FEATURE"
  /\ stored = call.current

\* C7: a merge that succeeded, submitted again, succeeds and stores the same
\* roadmap: nothing is added twice.
C7_IdempotentMerge ==
  ObservedCreate /\ call.again /\ call.previous.ok
    => /\ call.outcome.ok
       /\ stored = call.current
       /\ stored = call.previous.roadmap

\* the second submission ran on a roadmap of two features with a status set
C7_Witness ==
  /\ ObservedCreate /\ call.again /\ call.previous.ok /\ call.outcome.ok
  /\ Len(stored.features) = 2
  /\ Len(call.features) = 2
  /\ \E i \in 1..Len(stored.features) : \E j \in 1..Len(stored.features[i].actions) :
       stored.features[i].actions[j].status = "in_progress"

ActionsAscending(actions) ==
  \A i \in 1..Len(actions) : \A j \in 1..Len(actions) :
    i < j => ParseFloat(actions[i].number) <= ParseFloat(actions[j].number)

FeaturesAscending(features) ==
  \A i \in 1..Len(features) : \A j \in 1..Len(features) :
    i < j => ParseInt(features[i].number) <= ParseInt(features[j].number)

\* C8 as claimed: after a successful merge the features are ascending by number
\* and the actions of every feature are ascending by number.
C8_SortedAfterMerge ==
  ObservedCreate /\ call.outcome.ok
    => /\ FeaturesAscending(stored.features)
       /\ \A i \in 1..Len(stored.features) : ActionsAscending(stored.features[i].actions)

\* the status of an action of a roadmap; "" when the action is not there
StatusOf(roadmap, actionNumber) ==
  LET f == TargetFeature(roadmap.features, actionNumber)
  IN IF f = 0 THEN ""
     ELSE roadmap.features[f].actions[FindNumber(roadmap.features[f].actions,
                                                  actionNumber)].status

OnCancelled ==
  /\ ObservedUpdate
  /\ call.args.status # Undefined
  /\ StatusOf(call.current, call.args.actionNumber) = "cancelled"

StrictFlow == {<< "pending", "in_progress" >>, << "in_progress", "completed" >>}

\* C11: every status change that updateroadmap accepts moves the action one
\* step forward along pending -> in_progress -> completed: no backward
\* transition and no skipped state is accepted.
C11_StrictStatusFlow ==
  /\ ObservedUpdate
  /\ call.outcome.ok
  /\ call.args.status # Undefined
  /\ StatusOf(call.outcome.roadmap, call.args.actionNumber)
       # StatusOf(call.current, call.args.actionNumber)
  => << StatusOf(call.current, call.args.actionNumber),
        StatusOf(call.outcome.roadmap, call.args.actionNumber) >> \in StrictFlow

\* the observed call returned, and with it the roadmap that it persisted
Persisted == (ObservedCreate \/ ObservedUpdate) /\ call.outcome.ok

NoEmptyFeature(roadmap) ==
  /\ roadmap.features # << >>
  /\ \A f \in 1..Len(roadmap.features) : roadmap.features[f].actions # << >>

ProposesEmptyFeature ==
  ObservedCreate /\ \E i \in 1..Len(call.features) : call.features[i].actions = << >>

\* C22: every roadmap persisted by a successful createroadmap or updateroadmap
\* has at least one feature and no feature without actions, and a proposal
\* with a feature without actions is rejected and nothing is written
C22_NoEmptyFeature ==
  /\ Persisted => NoEmptyFeature(call.outcome.roadmap)
  /\ stored.present => NoEmptyFeature(stored)
  /\ ProposesEmptyFeature => ~call.outcome.ok /\ stored = call.current

\* a proposal of a valid feature and of a new feature without actions was
\* rejected on an existing roadmap
C22_Witness ==
  /\ ProposesEmptyFeature
  /\ Len(call.features) = 2
  /\ call.features[1].actions # << >>
  /\ call.current.present
  /\ FindNumber(call.current.features, call.features[2].number) = 0
  /\ ~call.outcome.ok
  /\ stored = call.current

\* the elements of a sequence
Range(q) == {q[i] : i \in 1..Len(q)}

\* the violations that the two validation passes find in a proposal
InputViolations(features) ==
  Range(FirstPass(features)) \cup Range(validateFeatureSequence(features))

\* C26: the validation of a proposal does not stop at the first violation: the
\* error of a rejected proposal lists every violation of the proposal, and
\* nothing of the proposal is merged
C26_AllViolationsListed ==
  ObservedCreate /\ call.features # << >>
    => /\ InputViolations(call.features) \subseteq Range(call.outcome.errors)
       /\ (InputViolations(call.features) # {} \/ ProposesEmptyFeature)
            => ~call.outcome.ok /\ stored = call.current

\* the features of a roadmap have distinct numbers, its actions have distinct
\* numbers, and every action stands under the feature of its prefix
IdentifiersConsistent(roadmap) ==
  LET features == roadmap.features
  IN /\ \A f, g \in 1..Len(features) : f # g => features[f].number # features[g].number
     /\ \A f, g \in 1..Len(features) :
          \A a \in 1..Len(features[f].actions) : \A b \in 1..Len(features[g].actions) :
            << f, a >> # << g, b >>
              => features[f].actions[a].number # features[g].actions[b].number
     /\ \A f \in 1..Len(features) : \A a \in 1..Len(features[f].actions) :
          SplitPrefix(features[f].actions[a].number) = features[f].number

ActionCount(roadmap) ==
  LET RECURSIVE Sum(_)
      Sum(features) ==
        IF features = << >> THEN 0 ELSE Len(Head(features).actions) + Sum(Tail(features))
  IN Sum(roadmap.features)

\* C27: in every persisted roadmap the feature numbers are pairwise distinct,
\* the action numbers are pairwise distinct over the whole roadmap, and the
\* prefix of every action number is the number of its feature
C27_IdentifierInvariant ==
  /\ stored.present => IdentifiersConsistent(stored)
  /\ Persisted => IdentifiersConsistent(call.outcome.roadmap)

\* a merge into a roadmap of several merges and updates gave two features
\* and three actions
C27_Witness ==
  /\ ObservedCreate /\ call.outcome.ok
  /\ call.current.present
  /\ stored # call.current
  /\ Len(stored.features) = 2
  /\ ActionCount(stored) = 3
  /\ \E f \in 1..Len(call.current.features) :
       \E a \in 1..Len(call.current.features[f].actions) :
         call.current.features[f].actions[a].status # "pending"

\* the proposal names an action that the roadmap has
NamesStoredAction(current, features) ==
  \E i \in 1..Len(features) : \E j \in 1..Len(features[i].actions) :
    TargetFeature(current.features, features[i].actions[j].number) # 0

\* every action of current stands in roadmap as it is, under the same feature
KeepsActions(current, roadmap) ==
  \A f \in 1..Len(current.features) :
    LET at == FindNumber(roadmap.features, current.features[f].number)
    IN /\ at # 0
       /\ Range(current.features[f].actions) \subseteq Range(roadmap.features[at].actions)

\* C28: a merge leaves every stored action as it is, with its description and
\* its status, and a proposal that names a stored action, with any
\* description, is merged all the same
C28_StoredActionsUntouched ==
  ObservedCreate
    => /\ KeepsActions(call.current, stored)
       /\ /\ NamesStoredAction(call.current, call.features)
          /\ InputValid(call.features)
          /\ ~Offending(call.current, call.features)
          => call.outcome.ok

\* the proposal named a stored action that had been started, with another
\* description and another status, and added an action next to it
C28_Witness ==
  /\ ObservedCreate /\ call.outcome.ok
  /\ call.features[1].actions = << UncheckedAction, Action(A102, "Build form", "pending") >>
  /\ StatusOf(call.current, A101) = "in_progress"
  /\ StatusOf(call.current, A102) = ""
  /\ StatusOf(stored, A101) = "in_progress"
  /\ StatusOf(stored, A102) = "pending"

\* the actions of roadmap that current does not have
NewActions(current, roadmap) ==
  UNION {{a \in Range(roadmap.features[f].actions) :
            TargetFeature(current.features, a.number) = 0} :
         f \in 1..Len(roadmap.features)}

ProposedActions(features) ==
  UNION {Range(features[i].actions) : i \in 1..Len(features)}

CombinedUpdate ==
  /\ ObservedUpdate
  /\ call.args.description # Undefined
  /\ call.args.status # Undefined
  /\ call.current # NoDoc
  /\ StatusOf(call.current, call.args.actionNumber) # ""

\* one of the two parts of the observed combined update is refused
PartRefused ==
  \/ validateDescription(call.args.description, "action") # << >>
  \/ validateStatusProgression(StatusOf(call.current, call.args.actionNumber),
                               call.args.status) # << >>

\* C31: a combined description-and-status update is all-or-nothing: when the
\* status transition is refused or the description is invalid, the call fails
\* and the stored roadmap has neither the new description nor the new status
C31_CombinedUpdateAllOrNothing ==
  CombinedUpdate /\ PartRefused
    => /\ ~call.outcome.ok
       /\ stored = call.current

\* a valid new description came with a status that the action may not take
C31_Witness ==
  /\ CombinedUpdate
  /\ call.args.description = "Ship form"
  /\ validateDescription(call.args.description, "action") = << >>
  /\ call.outcome.error = "INVALID_STATUS_TRANSITION"
  /\ stored = call.current
  /\ \E f \in 1..Len(stored.features) : \E a \in 1..Len(stored.features[f].actions) :
       /\ stored.features[f].actions[a].number = call.args.actionNumber
       /\ stored.features[f].actions[a].description # "Ship form"

\* the roadmap has a cancelled action
HasCancelled(roadmap) ==
  \E f \in 1..Len(roadmap.features) : \E a \in 1..Len(roadmap.features[f].actions) :
    roadmap.features[f].actions[a].status = "cancelled"

InSection(p) ==
  proc[p].pc \in {"readcurrent", "open", "write", "sync", "handlesync", "close",
                  "rename", "fsync", "archive", "archivefsync", "unlock"}

UpdateKinds == {"createroadmap", "updateroadmap"}

CallReturned(p) == proc[p].pc = "idle" /\ proc[p].status \in {"ok", "fail"}

UpdateSucceeded(p) ==
  proc[p].op.kind \in UpdateKinds /\ proc[p].pc = "idle" /\ proc[p].status = "ok"

UpdateFailed(p) ==
  proc[p].op.kind \in UpdateKinds /\ proc[p].pc = "idle" /\ proc[p].status = "fail"

\* C1: at any time at most one process is inside a lock-protected section of
\* the directory.
C1_MutualExclusion ==
  \A p, q \in Procs : InSection(p) /\ InSection(q) => p = q

\* C2: of two update calls that both succeeded, the one that took the lock
\* second read, as its current document, exactly what the first one committed:
\* they never both read the same pre-image.
C2_SerialVisibility ==
  \A p, q \in Procs :
    p # q /\ UpdateSucceeded(p) /\ UpdateSucceeded(q)
      => proc[p].current = proc[q].post \/ proc[q].current = proc[p].post

\* C3: an update call that failed, at whatever step, has not changed the live
\* document file.
C3_FailedUpdateLeavesDocument ==
  \A p \in Procs : UpdateFailed(p) => ~proc[p].wrote

\* C4: the live document is, at every point of every writer's writeAtomic,
\* absent or the complete text of a document that was passed to a write, so a
\* reader without the lock never gets partial content and never an error.
C4_ReaderSeesWholeDocument ==
  /\ live.part \in {"absent", "full"}
  /\ \A p \in Procs :
       live.part = "full" /\ live.by = CallId(p) => live.data = proc[p].outcome.roadmap
  /\ \A p \in Procs :
       proc[p].op.kind = "read" /\ CallReturned(p)
         => proc[p].status = "ok" /\ proc[p].value.part \in {"absent", "full"}

\* a read returned a whole document while a writer was inside writeAtomic
C4_Witness ==
  \E p \in Procs :
    /\ proc[p].op.kind = "read" /\ CallReturned(p)
    /\ proc[p].beside
    /\ proc[p].value.part = "full"

\* the steps at which the temp file of the call exists and is not yet renamed
BeforeRename == {"write", "sync", "handlesync", "close", "rename"}

KilledBeforeRename(p) == proc[p].pc = "crashed" /\ proc[p].at \in BeforeRename

\* C5: when a process is killed between the creation of its temp file and the
\* rename, what that call wrote never becomes the live document, is never read
\* as the document and never reaches an archive, whatever calls come later.
C5_CrashBeforeRename ==
  \A p \in Procs :
    KilledBeforeRename(p)
      => /\ live.by # CallId(p)
         /\ \A a \in DOMAIN archives : archives[a].by # CallId(p)
         /\ \A q \in Procs : proc[q].value.by # CallId(p) /\ proc[q].current.by # CallId(p)

\* a process was killed with its temp file left behind, and a call that began
\* after that committed a document
C5_Witness ==
  \E p, q \in Procs :
    /\ KilledBeforeRename(p)
    /\ CallId(p) \in DOMAIN temps
    /\ proc[q].late /\ UpdateSucceeded(q) /\ proc[q].wrote

\* C9: an update that completes the last action renames, inside its section,
\* exactly the document it has just written: once the rename is done the live
\* file is gone and the archive holds this update's completed tree.
C9_AutoArchiveInSection ==
  \A p \in Procs :
    /\ proc[p].op.kind = "updateroadmap"
    /\ proc[p].archived
    /\ proc[p].pc \in {"archivefsync", "unlock"}
    /\ proc[p].error = ""
    => proc[p].archivedOwn /\ live = NoFile

MutatingKinds == {"createroadmap", "updateroadmap", "archive"}

\* C14: a call whose lock acquisition failed throws the timeout error and has
\* done no read, no transform, no temp file, no rename and no archive; and a
\* mutating call that returned without having changed the live file reported
\* a failure.
C14_LockFailureIsReported ==
  \A p \in Procs :
    /\ proc[p].error = "LOCK_TIMEOUT"
         => /\ proc[p].pc = "idle" /\ proc[p].status = "fail"
            /\ proc[p].outcome = NoOutcome
            /\ ~proc[p].wrote /\ ~proc[p].archived /\ proc[p].post = NoFile
            /\ CallId(p) \notin DOMAIN temps
    /\ proc[p].op.kind \in MutatingKinds /\ CallReturned(p) /\ ~proc[p].wrote
         => proc[p].status = "fail"

\* a call gave up on the lock while another process was inside its section
C14_Witness ==
  \E p, q \in Procs :
    /\ proc[p].op.kind \in MutatingKinds
    /\ CallReturned(p) /\ proc[p].error = "LOCK_TIMEOUT"
    /\ InSection(q) /\ lock.pid = q

\* the transform of the call of p threw
TransformThrew(p) == proc[p].outcome # NoOutcome /\ ~proc[p].outcome.ok

\* C15: when the transform throws, update writes no temp file and renames
\* nothing, releases the lock and throws the error of the transform.
C15_TransformErrorWritesNothing ==
  \A p \in Procs :
    TransformThrew(p)
      => /\ proc[p].pc \in {"unlock", "idle", "crashed"}
         /\ ~proc[p].wrote /\ ~proc[p].archived
         /\ CallId(p) \notin DOMAIN temps
         /\ proc[p].error = proc[p].outcome.error
         /\ proc[p].pc = "idle"
              => proc[p].status = "fail" /\ ~(lock.held /\ lock.pid = p)

\* an update of an action that the live roadmap does not have was thrown back
C15_Witness ==
  \E p \in Procs :
    /\ TransformThrew(p)
    /\ CallReturned(p)
    /\ proc[p].error = "ACTION_NOT_FOUND"
    /\ live.part = "full" /\ live = proc[p].current

\* the documents that the directory holds: the live one and the archived ones
StoredDocuments == {live.data} \cup {archives[a].data : a \in DOMAIN archives}

\* the document shows what the call asked for: the actions of the proposal, or
\* the status of the update
EffectIn(op, doc) ==
  /\ doc.present
  /\ IF op.kind = "createroadmap"
     THEN \A i \in 1..Len(op.features) : \A j \in 1..Len(op.features[i].actions) :
            TargetFeature(doc.features, op.features[i].actions[j].number) # 0
     ELSE StatusOf(doc, op.args.actionNumber) = op.args.status

\* C16: when two calls of createroadmap or updateroadmap ran concurrently and
\* both returned success, the effect of each is in the stored roadmap: the
\* actions that the merge added and the status that the update set.
C16_NoLostUpdate ==
  \A p, q \in Procs :
    p # q /\ UpdateSucceeded(p) /\ UpdateSucceeded(q)
      => \E d \in StoredDocuments : EffectIn(proc[p].op, d)

\* C17: the file that the automatic archival of updateroadmap renames into an
\* archive is a roadmap in which every action is completed, whatever the other
\* processes do meanwhile.
C17_ArchiveIsCompleted ==
  \A p \in Procs :
    proc[p].op.kind = "updateroadmap" /\ proc[p].archived => proc[p].archivedCompleted

\* the features of a roadmap file, and none for a file that holds no roadmap
FeaturesOf(file) == IF file.part = "full" THEN file.data.features ELSE << >>

\* C21: the title and the description of a feature of the live document stay
\* the same in every later state of that document, whatever calls succeed
\* or fail, one after the other or at the same time
C21_FeatureImmutable ==
  [][\A f \in 1..Len(FeaturesOf(live)) : \A g \in 1..Len(FeaturesOf(live')) :
       FeaturesOf(live)[f].number = FeaturesOf(live')[g].number
         => /\ FeaturesOf(live)[f].title = FeaturesOf(live')[g].title
            /\ FeaturesOf(live)[f].description = FeaturesOf(live')[g].description]_vars

\* C23: an archive file, once it is there, is never replaced by a later
\* archive operation
C23_ArchiveNeverOverwritten ==
  [][\A name \in DOMAIN archives :
       name \in DOMAIN archives' /\ archives'[name] = archives[name]]_vars

WritingKinds == {"createroadmap", "updateroadmap", "write"}

\* C24: when a write or an update has returned with success, the temp file of
\* that call is not in the directory
C24_NoTempAfterSuccess ==
  \A p \in Procs :
    proc[p].op.kind \in WritingKinds /\ CallReturned(p) /\ proc[p].status = "ok"
      => CallId(p) \notin DOMAIN temps

\* an update returned with success after its rename, next to the temp file of
\* a process that was killed
C24_Witness ==
  \E p \in Procs : \E q \in Procs :
    /\ proc[p].op.kind \in WritingKinds /\ CallReturned(p) /\ proc[p].status = "ok"
    /\ proc[p].wrote
    /\ proc[q].pc = "crashed"
    /\ CallId(q) \in DOMAIN temps

ArchiveReturned(p) == proc[p].op.kind = "archive" /\ CallReturned(p)

\* C25: archive() succeeds only when the call itself renamed a live document
\* that was there; when there is none, never created or archived by another
\* call after the exists() check, it fails and makes no archive file; and two
\* archive() calls never both succeed on one document
C25_ArchiveFailsWithoutDocument ==
  \A p \in Procs :
    ArchiveReturned(p)
      => /\ proc[p].status = "ok" => proc[p].archived /\ proc[p].renamed # NoFile
         /\ ~proc[p].archived => proc[p].status = "fail" /\ proc[p].renamed = NoFile
         /\ \A q \in Procs \ {p} :
              ArchiveReturned(q) /\ proc[p].status = "ok" /\ proc[q].status = "ok"
                => proc[p].renamed.by # proc[q].renamed.by

\* two archive() calls passed the exists() check on one document: one renamed
\* it, the other found no file under the lock and failed
C25_Witness ==
  \E p \in Procs : \E q \in Procs :
    /\ ArchiveReturned(p) /\ proc[p].status = "ok" /\ proc[p].archived
    /\ ArchiveReturned(q) /\ proc[q].status = "fail" /\ proc[q].error = "ENOENT"
    /\ ~proc[q].archived
    /\ Cardinality(DOMAIN archives) = 1

ActionNumbersOf(feature) == {feature.actions[a].number : a \in 1..Len(feature.actions)}

\* C29: no action is deleted or renumbered: every action number of the live
\* document is in every later state of that document, under the same feature
C29_NoActionDeleted ==
  [][live.part = "full" /\ live'.part = "full"
       => \A f \in 1..Len(live.data.features) :
            \E g \in 1..Len(live'.data.features) :
              /\ live'.data.features[g].number = live.data.features[f].number
              /\ ActionNumbersOf(live.data.features[f])
                   \subseteq ActionNumbersOf(live'.data.features[g])]_vars

\* C32: in every run of writeAtomic the content of the temp file is synced and
\* the file closed before the rename onto the live name, and the directory is
\* synced after the rename: the live name is never bound to content that was
\* not yet synced
C32_WriteProtocolOrder ==
  \A p \in Procs :
    /\ proc[p].closed => proc[p].synced
    /\ proc[p].pc = "rename" \/ (proc[p].op.kind \in WritingKinds /\ proc[p].wrote)
         => proc[p].synced /\ proc[p].closed
    /\ proc[p].dirSynced => proc[p].wrote
    /\ proc[p].calls > 0 /\ live.by = CallId(p) => proc[p].synced /\ live.part = "full"
    /\ proc[p].op.kind \in WritingKinds /\ CallReturned(p) /\ proc[p].status = "ok"
         => proc[p].wrote /\ proc[p].dirSynced

\* a call went through the whole of writeAtomic and its document is the live
\* one, while another call is between its sync and its rename
C32_Witness ==
  \E p \in Procs : \E q \in Procs :
    /\ proc[p].op.kind \in WritingKinds /\ CallReturned(p) /\ proc[p].status = "ok"
    /\ proc[p].synced /\ proc[p].closed /\ proc[p].wrote /\ proc[p].dirSynced
    /\ live.by = CallId(p)
    /\ proc[q].pc = "close" /\ proc[q].synced /\ ~proc[q].closed

\* process p is between acquireLock returning and its release, and the
\* sentinel at the path is the one it created
HoldsSentinel(p) == InSection(p) /\ lock.held /\ lock.pid = p

\* C34: a live lock holder is never dispossessed: while a process is between
\* acquireLock returning and its release, its sentinel stays at the path until
\* its own release removes it, also when the section lasts more than 30 s
C34_HolderKeepsSentinel ==
  [][\A p \in Procs :
       HoldsSentinel(p) => lock' = lock \/ proc'[p].pc = "idle"]_vars

\* C36: release removes only the sentinel that its own acquire created: when
\* that sentinel is gone and another process has created its own, the release
\* leaves the sentinel of the other process in place
C36_ReleaseOwnSentinel ==
  [][\A p \in Procs :
       proc[p].pc = "unlock" /\ proc'[p].pc = "idle" /\ lock.held /\ lock.pid # p
         => lock' = lock]_vars

\* C37: no sentinel leak: a write, update or archive call that acquired the
\* lock and was not killed has released it when it returns or throws, on every
\* exit path; when no call is running and no process was killed, there is no
\* sentinel file
C37_NoSentinelLeak ==
  /\ \A p \in Procs : CallReturned(p) => ~(lock.held /\ lock.pid = p)
  /\ (crashes = 0 /\ \A p \in Procs : proc[p].pc = "idle") => ~lock.held

\* one call was thrown out of its section by an I/O error, another returned
\* with success, nobody was killed and the sentinel is gone
C37_Witness ==
  \E p \in Procs : \E q \in Procs :
    /\ CallReturned(p) /\ proc[p].error = "IO_ERROR"
    /\ CallReturned(q) /\ proc[q].status = "ok" /\ proc[q].wrote
    /\ crashes = 0
    /\ ~lock.held

\* ------------------------------------------------------------------------
\* Claims about acquireLock (LockSpec)
\* ------------------------------------------------------------------------

\* process p takes a step
Steps(p) == proc'[p] # proc[p]

\* the wait budget of p is not used up
WithinBudget(p) == now - proc[p].start < LOCK_TIMEOUT_MS

\* C12: a process that finds the sentinel older than LOCK_STALE_MS goes on to
\* unlink it, retries without sleeping, and its retry takes the lock when no
\* sentinel was created in between and its budget is not used up.
C12_StaleLockRecovery ==
  [][\A p \in Procs :
       /\ proc[p].pc = "stat" /\ Steps(p) /\ lock.held /\ now - lock.mtime > LOCK_STALE_MS
            => proc'[p].pc = "unlinkstale"
       /\ proc[p].pc = "unlinkstale" /\ Steps(p)
            => /\ proc'[p].pc = "acquire"
               /\ proc'[p].sleeps = proc[p].sleeps
               /\ proc'[p].reclaimed => ~lock'.held
       /\ proc[p].pc = "acquire" /\ Steps(p) /\ proc[p].reclaimed /\ ~lock.held
          /\ WithinBudget(p)
            => lock' = [held |-> TRUE, pid |-> p, mtime |-> now] /\ InSection(p)'
    ]_vars

\* a process holds the lock that it took from a stale sentinel, with no sleep
\* and no time spent
C12_Witness ==
  \E p \in Procs :
    /\ InSection(p)
    /\ proc[p].reclaimed
    /\ lock.pid = p
    /\ now = proc[p].start
    /\ \A q \in Procs : q # p => proc[q].pc = "sleep"

\* C13: acquireLock always comes to an end, whatever the other users of the
\* sentinel do: it returns the release function or throws the timeout error,
\* and the first test of the loop after the budget is used up throws it.
C13_AcquireTerminates ==
  /\ \A p \in Procs : (proc[p].pc \in Acquiring) ~> (proc[p].pc \notin Acquiring)
  /\ [][\A p \in Procs :
          proc[p].pc = "acquire" /\ Steps(p) /\ ~WithinBudget(p)
            => proc'[p].pc = "idle" /\ proc'[p].error = "LOCK_TIMEOUT"
       ]_vars

\* an acquisition ended with the timeout error while a sentinel that another
\* process created during the wait was in place
C13_Witness ==
  \E p \in Procs :
    /\ proc[p].pc = "idle"
    /\ proc[p].error = "LOCK_TIMEOUT"
    /\ lock.held /\ lock.pid = 0 /\ lock.mtime > 0


\* C35: the reclaim of a stale sentinel is free of races: the unlink that
\* follows the staleness check removes only a sentinel that is stale, never
\* a fresh one that another contender created after the stale one was removed
C35_UnlinkOnlyStale ==
  [][\A p \in Procs :
       proc[p].pc = "unlinkstale" /\ proc'[p].pc = "acquire" /\ lock.held /\ ~lock'.held
         => IsStale(lock, now)]_vars

\* ------------------------------------------------------------------------
\* Claims about write and read (StoreSpec)
\* ------------------------------------------------------------------------

\* the structural rules of the data model: identifiers well formed and used
\* once, every action under the feature of its prefix, no feature without
\* actions
WellFormed(roadmap) ==
  /\ validateFeatureSequence(roadmap.features) = << >>
  /\ \A f \in 1..Len(roadmap.features) : roadmap.features[f].actions # << >>

WritesInvalid(p) ==
  proc[p].op.kind = "write" /\ ~WellFormed(Roadmap(proc[p].op.features))

\* C19: write(document) rejects a document that breaks the structural rules,
\* and such a document never becomes the content of the live file
C19_WriteValidates ==
  \A p \in Procs :
    WritesInvalid(p) =>
      /\ live.by # CallId(p)
      /\ CallReturned(p) => proc[p].status = "fail"

ReadReturned(p) == proc[p].op.kind = "read" /\ CallReturned(p)

\* C20: read() returns absent exactly when the file is missing or blank, and
\* what it returns otherwise follows the structural rules of the data model
C20_ReadNeverReturnsInvalid ==
  \A p \in Procs :
    ReadReturned(p) /\ proc[p].status = "ok" =>
      /\ ~proc[p].value.data.present <=> proc[p].value.part \in {"absent", "empty"}
      /\ proc[p].value.data.present => WellFormed(proc[p].value.data)

\* ------------------------------------------------------------------------
\* Claims about the document codec (CodecSpec)
\* ------------------------------------------------------------------------

Decoded == text # << >> /\ decoded # ParseError("")

\* C18: decoding the text that encodes a valid roadmap yields that roadmap:
\* the same features and actions in the same order, with the same
\* identifiers, titles, descriptions and statuses
C18_RoundTrip ==
  Decoded /\ text = buildDocument(memory) => decoded.ok /\ decoded.roadmap = memory

\* the lines of the text that have the form of an action line, whatever stands
\* between the brackets
ActionShaped(line) ==
  LET trimmed == TrimText(line)
  IN /\ Len(trimmed) >= 5
     /\ trimmed[1] = "-" /\ trimmed[2] = " " /\ trimmed[3] = "[" /\ trimmed[5] = "]"
     /\ actionMatch([trimmed EXCEPT ![4] = " "]).matched

UnknownMarker(line) ==
  ActionShaped(line) /\ TrimText(line)[4] \notin DOMAIN STATUS_MAP

ActionLinesOf(body) ==
  {l \in 1..Len(SplitLines(body)) : ActionShaped(SplitLines(body)[l])}

RECURSIVE CountActions(_)
CountActions(features) ==
  IF features = << >> THEN 0
  ELSE Len(features[1].actions) + CountActions(Tail(features))

\* C33: decoding a text with an action line whose status marker is none of
\* space, x, X, ~ and - raises an error; such a line is never skipped, so the
\* decoded roadmap never has fewer actions than the text has action lines
C33_UnknownMarkerRaises ==
  Decoded
    => /\ (\E l \in ActionLinesOf(text) : UnknownMarker(SplitLines(text)[l]))
            => ~decoded.ok
       /\ decoded.ok
            => CountActions(decoded.roadmap.features) >= Cardinality(ActionLinesOf(text))

====
